---- MODULE Spec2Model ----
(***************************************************************************)
(* gim: a terminal text editor (src/main.go, the last of the program's     *)
(* versions in that file, lines 885-2116).  The model keeps the editor     *)
(* state E, the globals of the find callback and of the quit confirmation, *)
(* and the position of the main loop and of the prompt sub-loop.           *)
(*                                                                         *)
(* Bytes are one-character strings, Go strings and slices are sequences;   *)
(* row positions, idx, x and y are 0-based as in the source, and Row(rs,p) *)
(* reads rs at the 0-based position p.                                     *)
(***************************************************************************)
EXTENDS Integers, Sequences, FiniteSets, TLC

(* ---------------------------------------------------------------------- *)
(* Program constants                                                      *)
(* ---------------------------------------------------------------------- *)

HighlightNormal == 0
HighlightNumber == 1
HighlightMatch == 2
HighlightString == 3
HighlightComment == 4
HighlightMultilineComment == 5
HighLightKeyword1 == 6
HighLightKeyword2 == 7

FlagHighlightNumber == 1
FlagHighlightString == 2

TabStop == <<" ", " ", " ", " ">>

EmptyFile == <<"[", "N", "e", "w", " ", "F", "i", "l", "e", "]">>

NewLine == <<"\r", "\n">>

(* Logical keys: a byte that is typed stands for itself; control bytes and *)
(* the decoded escape sequences are named.                                 *)
Enter == "Enter"
Backspace == "Backspace"
CtrlH == "CtrlH"
CtrlQ == "CtrlQ"
CtrlS == "CtrlS"
CtrlF == "CtrlF"
CtrlL == "CtrlL"
EscapeChar == "Escape"
ArrowLeft == "ArrowLeft"
ArrowRight == "ArrowRight"
ArrowUp == "ArrowUp"
ArrowDown == "ArrowDown"
HomeKey == "HomeKey"
DelKey == "DelKey"
EndKey == "EndKey"
PageUp == "PageUp"
PageDown == "PageDown"

(* A variant of SpecialKeys for a prompt that does not test char < 128.    *)
SpecialKeysNone == {}

SpecialKeys ==
  {ArrowLeft, ArrowRight, ArrowUp, ArrowDown, HomeKey, DelKey, EndKey, PageUp, PageDown}

(* Bytes below 0x20 and 0x7f: unicode.IsControl on the keys of the model. *)
ControlKeys ==
  {Enter, Backspace, CtrlH, CtrlQ, CtrlS, CtrlF, CtrlL, EscapeChar, "\t", "\n"}

IsControl(c) == c \in ControlKeys

CHighlightKeywords ==
  << <<"s", "w", "i", "t", "c", "h">>,
     <<"i", "f">>,
     <<"w", "h", "i", "l", "e">>,
     <<"f", "o", "r">>,
     <<"b", "r", "e", "a", "k">>,
     <<"c", "o", "n", "t", "i", "n", "u", "e">>,
     <<"r", "e", "t", "u", "r", "n">>,
     <<"e", "l", "s", "e">>,
     <<"s", "t", "r", "u", "c", "t">>,
     <<"u", "n", "i", "o", "n">>,
     <<"t", "y", "p", "e", "d", "e", "f">>,
     <<"s", "t", "a", "t", "i", "c">>,
     <<"e", "n", "u", "m">>,
     <<"c", "l", "a", "s", "s">>,
     <<"c", "a", "s", "e">>,
     <<"i", "n", "t", "|">>,
     <<"l", "o", "n", "g", "|">>,
     <<"d", "o", "u", "b", "l", "e", "|">>,
     <<"f", "l", "o", "a", "t", "|">>,
     <<"c", "h", "a", "r", "|">>,
     <<"u", "n", "s", "i", "g", "n", "e", "d", "|">>,
     <<"s", "i", "g", "n", "e", "d">>,
     <<"v", "o", "i", "d", "|">> >>

GoHighlightKeywords ==
  << <<"b", "r", "e", "a", "k">>,
     <<"d", "e", "f", "a", "u", "l", "t">>,
     <<"f", "u", "n", "c">>,
     <<"i", "n", "t", "e", "r", "f", "a", "c", "e">>,
     <<"s", "e", "l", "e", "c", "t">>,
     <<"c", "a", "s", "e">>,
     <<"d", "e", "f", "e", "r">>,
     <<"g", "o">>,
     <<"e", "l", "s", "e">>,
     <<"g", "o", "t", "o">>,
     <<"p", "a", "c", "k", "a", "g", "e">>,
     <<"s", "w", "i", "t", "c", "h">>,
     <<"f", "a", "l", "l", "t", "h", "r", "o", "u", "g", "h">>,
     <<"i", "f">>,
     <<"r", "a", "n", "g", "e">>,
     <<"c", "o", "n", "t", "i", "n", "u", "e">>,
     <<"f", "o", "r">>,
     <<"i", "m", "p", "o", "r", "t">>,
     <<"r", "e", "t", "u", "r", "n">>,
     <<"t", "y", "p", "e", "|">>,
     <<"v", "a", "r", "|">>,
     <<"c", "h", "a", "n", "|">>,
     <<"b", "o", "o", "l", "|">>,
     <<"m", "a", "p", "|">>,
     <<"s", "t", "r", "u", "c", "t", "|">>,
     <<"c", "o", "n", "s", "t", "|">>,
     <<"i", "n", "t", "|">>,
     <<"s", "t", "r", "i", "n", "g", "|">>,
     <<"r", "u", "n", "e", "|">>,
     <<"b", "y", "t", "e", "|">>,
     <<"f", "l", "o", "a", "t", "6", "4", "|">>,
     <<"f", "l", "o", "a", "t", "3", "2", "|">>,
     <<"i", "n", "t", "8", "|">>,
     <<"i", "n", "t", "1", "6", "|">>,
     <<"i", "n", "t", "3", "2", "|">>,
     <<"i", "n", "t", "6", "4", "|">> >>

(* A keyword as the loop of editorRenderSyntax reads it: a last byte "|"  *)
(* marks class 2 and is not part of the text.                             *)
ParseKeyword(keyword) ==
  LET keywordLen == Len(keyword)
      isKeyword2 == keyword[keywordLen] = "|"
  IN [text |-> IF isKeyword2 THEN SubSeq(keyword, 1, keywordLen - 1) ELSE keyword,
      isKeyword2 |-> isKeyword2]

ParseKeywords(list) == [k \in 1..Len(list) |-> ParseKeyword(list[k])]

NoSyntax == [fileType |-> "none"]

CSyntax ==
  [fileType |-> "c",
   fileMatch |-> << <<".", "c">>, <<".", "h">>, <<".", "c", "p", "p">> >>,
   singleLineCommentStart |-> <<"/", "/">>,
   multilineCommentStart |-> <<"/", "*">>,
   multilineCommentEnd |-> <<"*", "/">>,
   flags |-> 3,
   keywords |-> ParseKeywords(CHighlightKeywords)]

GoSyntax ==
  [fileType |-> "go",
   fileMatch |-> << <<".", "g", "o">> >>,
   singleLineCommentStart |-> <<"/", "/">>,
   multilineCommentStart |-> <<"/", "*">>,
   multilineCommentEnd |-> <<"*", "/">>,
   flags |-> 3,
   keywords |-> ParseKeywords(GoHighlightKeywords)]

HighlightDatabase == <<CSyntax, GoSyntax>>

(* ---------------------------------------------------------------------- *)
(* Strings                                                                *)
(* ---------------------------------------------------------------------- *)

Min(a, b) == IF a < b THEN a ELSE b

(* s[from:] with a 0-based from, 0 <= from <= len(s) *)
SliceFrom(s, from) == SubSeq(s, from + 1, Len(s))

(* s[:to] with a 0-based exclusive to, 0 <= to <= len(s) *)
SliceTo(s, to) == SubSeq(s, 1, to)

(* strings.HasPrefix(s[i:], p) *)
HasPrefixAt(s, i, p) ==
  /\ i + Len(p) <= Len(s)
  /\ \A k \in 1..Len(p) : s[i + k] = p[k]

(* strings.Index(s, q): the 0-based offset of the first occurrence, or -1 *)
StringsIndex(s, q) ==
  LET hits == {i \in 0..Len(s) : HasPrefixAt(s, i, q)}
  IN IF hits = {} THEN -1 ELSE CHOOSE i \in hits : \A j \in hits : i <= j

(* strings.LastIndex(s, q) *)
StringsLastIndex(s, q) ==
  LET hits == {i \in 0..Len(s) : HasPrefixAt(s, i, q)}
  IN IF hits = {} THEN -1 ELSE CHOOSE i \in hits : \A j \in hits : i >= j

(* strings.Contains(s, q) *)
StringsContains(s, q) == StringsIndex(s, q) # -1

RECURSIVE ReplaceAllTabs(_)
(* strings.ReplaceAll(line, "\t", TabStop) *)
ReplaceAllTabs(line) ==
  IF line = <<>> THEN <<>>
  ELSE (IF Head(line) = "\t" THEN TabStop ELSE <<Head(line)>>) \o ReplaceAllTabs(Tail(line))

Digits == {"0", "1", "2", "3", "4", "5", "6", "7", "8", "9"}

SeparatorBytes == {",", ".", "(", ")", "+", "-", "/", "*", "=", "~", "%", "<", ">", "{", "}", ";"}

IsSpace(c) == c \in {" ", "\t", "\n", "\r"}

isSeparator(c) == IsSpace(c) \/ c \in SeparatorBytes

Row(rs, p) == rs[p + 1]

(* ---------------------------------------------------------------------- *)
(* Syntax engine                                                          *)
(* ---------------------------------------------------------------------- *)

(* flags & f for a one-bit f *)
FlagAnd(flags, f) == IF (flags \div f) % 2 = 1 THEN f ELSE 0

(* hl with the 0-based positions from..to-1 set to v *)
Paint(hl, from, to, v) ==
  [k \in 1..Len(hl) |-> IF from < k /\ k <= to THEN v ELSE hl[k]]

KeywordMatches(render, i, kw) ==
  /\ HasPrefixAt(render, i, kw.text)
  /\ \/ (i + Len(kw.text) < Len(render) /\ isSeparator(render[i + Len(kw.text) + 1]))
     \/ i + Len(kw.text) = Len(render)

(* Some keyword of the list matches at i.  No keyword matches at a byte   *)
(* that begins none of them, which is looked up first.                    *)
KeywordHit(render, i, keywords) ==
  /\ render[i + 1] \in {keywords[k].text[1] : k \in 1..Len(keywords)}
  /\ \E k \in 1..Len(keywords) : KeywordMatches(render, i, keywords[k])

(* The value of lastKeyword when the range loop over the keywords ends: the *)
(* 0-based index of the first keyword that matches at i, else the last     *)
(* index (-1 for an empty list).                                           *)
LastKeyword(render, i, keywords) ==
  IF KeywordHit(render, i, keywords)
  THEN (CHOOSE k \in 1..Len(keywords) :
          /\ KeywordMatches(render, i, keywords[k])
          /\ \A j \in 1..(k - 1) : ~KeywordMatches(render, i, keywords[j])) - 1
  ELSE Len(keywords) - 1

RECURSIVE SyntaxScan(_, _, _)
(* The loop of editorRenderSyntax over render from position s.i on;        *)
(* s = [i, hl, prevSeparator, inString, inComment], inString "" for none.  *)
SyntaxScan(render, syn, s) ==
  IF s.i >= Len(render) THEN s
  ELSE
    LET i == s.i
        char == render[i + 1]
        prevHighlight == IF i > 0 THEN s.hl[i] ELSE HighlightNormal
        comment == syn.singleLineCommentStart
        mcs == syn.multilineCommentStart
        mce == syn.multilineCommentEnd
        keywords == syn.keywords
        lastKeyword == LastKeyword(render, i, keywords)
        hitLen == Len(keywords[lastKeyword + 1].text)
        hitHl == Paint(s.hl, i, i + hitLen,
                       IF keywords[lastKeyword + 1].isKeyword2 THEN HighLightKeyword2
                       ELSE HighLightKeyword1)
    IN
    IF comment # <<>> /\ s.inString = "" /\ ~s.inComment /\ HasPrefixAt(render, i, comment)
    THEN [s EXCEPT !.hl = Paint(s.hl, i, Len(render), HighlightComment),
                   !.i = Len(render)]
    ELSE IF mcs # <<>> /\ mce # <<>> /\ s.inString = "" /\ s.inComment
    THEN IF HasPrefixAt(render, i, mce)
         THEN SyntaxScan(render, syn,
                [s EXCEPT !.hl = Paint(s.hl, i, i + Len(mce), HighlightMultilineComment),
                          !.i = i + Len(mce),
                          !.inComment = FALSE,
                          !.prevSeparator = TRUE])
         ELSE SyntaxScan(render, syn,
                [s EXCEPT !.hl = Paint(s.hl, i, i + 1, HighlightMultilineComment),
                          !.i = i + 1])
    ELSE IF mcs # <<>> /\ mce # <<>> /\ s.inString = "" /\ HasPrefixAt(render, i, mcs)
    THEN SyntaxScan(render, syn,
           [s EXCEPT !.hl = Paint(s.hl, i, i + Len(mcs), HighlightMultilineComment),
                     !.i = i + Len(mcs),
                     !.inComment = TRUE])
    ELSE IF FlagAnd(syn.flags, FlagHighlightString) = 2 /\ s.inString # ""
    THEN IF char = "\\" /\ i + 1 < Len(render)
         THEN SyntaxScan(render, syn,
                [s EXCEPT !.hl = Paint(s.hl, i, i + 2, HighlightString),
                          !.i = i + 2])
         ELSE SyntaxScan(render, syn,
                [s EXCEPT !.hl = Paint(s.hl, i, i + 1, HighlightString),
                          !.inString = IF char = s.inString THEN "" ELSE s.inString,
                          !.prevSeparator = TRUE,
                          !.i = i + 1])
    ELSE IF FlagAnd(syn.flags, FlagHighlightString) = 2 /\ char \in {"\"", "'"}
    THEN SyntaxScan(render, syn,
           [s EXCEPT !.hl = Paint(s.hl, i, i + 1, HighlightString),
                     !.inString = char,
                     !.i = i + 1])
    ELSE IF /\ FlagAnd(syn.flags, FlagHighlightNumber) = 1
            /\ \/ (char \in Digits /\ (s.prevSeparator \/ prevHighlight = HighlightNumber))
               \/ (char = "." /\ prevHighlight = HighlightNumber)
    THEN SyntaxScan(render, syn,
           [s EXCEPT !.hl = Paint(s.hl, i, i + 1, HighlightNumber),
                     !.prevSeparator = FALSE,
                     !.i = i + 1])
    ELSE IF s.prevSeparator /\ lastKeyword # Len(keywords) - 1
    THEN (* a keyword other than the last one matched: painted, i past it *)
         SyntaxScan(render, syn,
           [s EXCEPT !.hl = hitHl, !.i = i + hitLen, !.prevSeparator = FALSE])
    ELSE IF s.prevSeparator /\ KeywordHit(render, i, keywords)
    THEN (* the last keyword matched: painted, i past it, and the loop's    *)
         (* tail runs as well                                               *)
         SyntaxScan(render, syn,
           [s EXCEPT !.hl = hitHl, !.i = i + hitLen + 1,
                     !.prevSeparator = isSeparator(char)])
    ELSE SyntaxScan(render, syn,
           [s EXCEPT !.prevSeparator = isSeparator(char), !.i = i + 1])

(* The highlight and the end-of-row comment state of one render string.   *)
SyntaxOf(render, syn, inComment) ==
  SyntaxScan(render, syn,
    [i |-> 0,
     hl |-> [k \in 1..Len(render) |-> HighlightNormal],
     prevSeparator |-> TRUE,
     inString |-> "",
     inComment |-> inComment])

(* ---------------------------------------------------------------------- *)
(* The editor state as a record w: the fields of E, the package-level     *)
(* variables quitTimes, lastMatch, direction, highlightRowIndex and       *)
(* highlightRowContent, and fault: "none", "panic" (a Go runtime panic:   *)
(* an index or a slice bound out of range) or "hang" (a recursion that    *)
(* does not end).  Every operation leaves a faulted state as it is.       *)
(* ---------------------------------------------------------------------- *)

Panic(w) == [w EXCEPT !.fault = "panic"]

InRows(w, p) == 0 <= p /\ p < Len(w.rows)

(* Recursion budget of the cross-row propagation: more than any           *)
(* terminating propagation over rs needs.                                 *)
RenderFuel(rs) == Len(rs) + 2

RECURSIVE editorRenderSyntaxAlways(_, _, _, _, _)
(* A variant of editorRenderSyntax that goes on to the next row whether    *)
(* the comment state of the row has changed or not.                        *)
editorRenderSyntaxAlways(Erows, row, at, syn, fuel) ==
  LET normal == [k \in 1..Len(row.render) |-> HighlightNormal]
      Put(rs, r) == IF at = -1 THEN rs ELSE [rs EXCEPT ![at + 1] = r]
      Scanned(res) ==
        LET row2 == [row EXCEPT !.highlight = res.hl, !.hlOpenComment = res.inComment]
            rows2 == Put(Erows, row2)
            Propagated(rec) ==
              [rows |-> rec.rows,
               row |-> IF at = -1 THEN row2 ELSE Row(rec.rows, at),
               fault |-> rec.fault]
        IN
        IF row.idx + 1 < Len(Erows)
        THEN IF fuel = 0
             THEN [rows |-> rows2, row |-> row2, fault |-> "hang"]
             ELSE Propagated(editorRenderSyntaxAlways(rows2, Row(rows2, row.idx + 1),
                                                      row.idx + 1, syn, fuel - 1))
        ELSE [rows |-> rows2, row |-> row2, fault |-> "none"]
  IN
  IF syn = NoSyntax
  THEN [rows |-> Put(Erows, [row EXCEPT !.highlight = normal]),
        row |-> [row EXCEPT !.highlight = normal],
        fault |-> "none"]
  ELSE IF row.idx > 0 /\ row.idx - 1 >= Len(Erows)
  THEN [rows |-> Erows, row |-> row, fault |-> "panic"]
  ELSE Scanned(SyntaxOf(row.render, syn,
                        row.idx > 0 /\ Row(Erows, row.idx - 1).hlOpenComment))

RECURSIVE editorRenderSyntax(_, _, _, _, _)
(* editorRenderSyntax(row) with E.rows = Erows.  row is the row's value;   *)
(* at is its position in Erows, or -1 for a row that is not in E.rows (the *)
(* row of the array editorInsertRow is still building).  The result holds  *)
(* E.rows and the row after the call.                                      *)
editorRenderSyntax(Erows, row, at, syn, fuel) ==
  LET normal == [k \in 1..Len(row.render) |-> HighlightNormal]
      Put(rs, r) == IF at = -1 THEN rs ELSE [rs EXCEPT ![at + 1] = r]
      (* after the scan of the row: res is its highlight and the comment   *)
      (* state at its end                                                  *)
      Scanned(res) ==
        LET row2 == [row EXCEPT !.highlight = res.hl, !.hlOpenComment = res.inComment]
            rows2 == Put(Erows, row2)
            changed == row.hlOpenComment # res.inComment
            Propagated(rec) ==
              [rows |-> rec.rows,
               row |-> IF at = -1 THEN row2 ELSE Row(rec.rows, at),
               fault |-> rec.fault]
        IN
        IF changed /\ row.idx + 1 < Len(Erows)
        THEN IF fuel = 0
             THEN [rows |-> rows2, row |-> row2, fault |-> "hang"]
             ELSE Propagated(editorRenderSyntax(rows2, Row(rows2, row.idx + 1),
                                                row.idx + 1, syn, fuel - 1))
        ELSE [rows |-> rows2, row |-> row2, fault |-> "none"]
  IN
  IF syn = NoSyntax
  THEN [rows |-> Put(Erows, [row EXCEPT !.highlight = normal]),
        row |-> [row EXCEPT !.highlight = normal],
        fault |-> "none"]
  ELSE IF row.idx > 0 /\ row.idx - 1 >= Len(Erows)
  THEN [rows |-> Erows, row |-> row, fault |-> "panic"]
  ELSE Scanned(SyntaxOf(row.render, syn,
                        row.idx > 0 /\ Row(Erows, row.idx - 1).hlOpenComment))

(* editorRenderRow(&E.rows[p]) *)
editorRenderRow(w, p) ==
  IF w.fault # "none" THEN w
  ELSE IF ~InRows(w, p) THEN Panic(w)
  ELSE
    LET row == [Row(w.rows, p) EXCEPT !.render = ReplaceAllTabs(Row(w.rows, p).line)]
        rows1 == [w.rows EXCEPT ![p + 1] = row]
        Done(r) == [w EXCEPT !.rows = r.rows, !.fault = r.fault]
    IN Done(editorRenderSyntax(rows1, row, p, w.syntax, RenderFuel(rows1)))

(* editorRenderRows *)
editorRenderRows(w) ==
  LET RECURSIVE Loop(_, _)
      Loop(v, i) == IF i >= Len(v.rows) THEN v ELSE Loop(editorRenderRow(v, i), i + 1)
  IN Loop(w, 0)

(* EditorRow{line: line}: the zero value of every other field *)
NewRow(line) ==
  [idx |-> 0, line |-> line, render |-> <<>>, highlight |-> <<>>, hlOpenComment |-> FALSE]

editorInsertRow(w, at, line) ==
  IF w.fault # "none" THEN w
  ELSE IF at < 0 \/ at > Len(w.rows) THEN w
  ELSE
    LET source == w.rows
        dist == [i \in 1..(Len(source) + 1) |->
                   IF i - 1 < at THEN [source[i] EXCEPT !.idx = i - 1]
                   ELSE IF i - 1 > at THEN [source[i - 1] EXCEPT !.idx = i - 1]
                   ELSE [NewRow(line) EXCEPT !.idx = i - 1]]
        (* editorRenderRow(&dist[at]) while E.rows is still source *)
        row == [dist[at + 1] EXCEPT !.render = ReplaceAllTabs(line)]
        Done(r) == [w EXCEPT !.rows = [dist EXCEPT ![at + 1] = r.row],
                             !.dirty = TRUE,
                             !.fault = r.fault]
    IN Done(editorRenderSyntax(source, row, -1, w.syntax, RenderFuel(source)))

(* editorDeleteRow that leaves the rows as they are *)
editorDeleteRowKeep(w, at) ==
  IF w.fault # "none" THEN w ELSE [w EXCEPT !.dirty = TRUE]

editorDeleteRow(w, at) ==
  IF w.fault # "none" THEN w
  ELSE IF at < 0 \/ at > Len(w.rows) THEN w
  ELSE
    LET source == w.rows
        (* the idx-- loop runs on the array that is replaced: dist keeps   *)
        (* each row's idx                                                  *)
        dist == SliceTo(source, at)
                  \o (IF at < Len(source) - 1 THEN SliceFrom(source, at + 1) ELSE <<>>)
    IN [w EXCEPT !.rows = dist, !.dirty = TRUE]

(* E.dirty = true at the end of a row operation *)
MarkDirty(w) == IF w.fault # "none" THEN w ELSE [w EXCEPT !.dirty = TRUE]

(* editorRowAppendString(&E.rows[p], line) *)
editorRowAppendString(w, p, line) ==
  IF w.fault # "none" THEN w
  ELSE IF ~InRows(w, p) THEN Panic(w)
  ELSE MarkDirty(editorRenderRow([w EXCEPT !.rows[p + 1].line = @ \o line], p))

(* editorRowDeleteChar(&E.rows[p], at) *)
editorRowDeleteChar(w, p, at) ==
  IF w.fault # "none" THEN w
  ELSE IF ~InRows(w, p) THEN Panic(w)
  ELSE
    LET line == Row(w.rows, p).line
    IN IF at < 0 \/ at >= Len(line) THEN w
       ELSE
         LET line2 == SliceTo(line, at)
                        \o (IF at < Len(line) - 1 THEN SliceFrom(line, at + 1) ELSE <<>>)
         IN MarkDirty(editorRenderRow([w EXCEPT !.rows[p + 1].line = line2], p))

(* A variant of editorRowInsertChar that does not render the row again. *)
editorRowInsertCharNoRender(w, p, at, char) ==
  IF w.fault # "none" THEN w
  ELSE IF ~InRows(w, p) THEN Panic(w)
  ELSE
    LET line == Row(w.rows, p).line
        at2 == IF at < 0 \/ at > Len(line) THEN Len(line) ELSE at
        line2 == SliceTo(line, at2) \o <<char>>
                   \o (IF at2 < Len(line) THEN SliceFrom(line, at2) ELSE <<>>)
    IN MarkDirty([w EXCEPT !.rows[p + 1].line = line2])

(* editorRowInsertChar(&E.rows[p], at, char) *)

editorRowInsertChar(w, p, at, char) ==
  IF w.fault # "none" THEN w
  ELSE IF ~InRows(w, p) THEN Panic(w)
  ELSE
    LET line == Row(w.rows, p).line
        at2 == IF at < 0 \/ at > Len(line) THEN Len(line) ELSE at
        line2 == SliceTo(line, at2) \o <<char>>
                   \o (IF at2 < Len(line) THEN SliceFrom(line, at2) ELSE <<>>)
    IN MarkDirty(editorRenderRow([w EXCEPT !.rows[p + 1].line = line2], p))

(* ---------------------------------------------------------------------- *)
(* Cursor and render columns                                              *)
(* ---------------------------------------------------------------------- *)

RECURSIVE Render2XFrom(_, _, _, _)
Render2XFrom(line, render, x, curRender) ==
  IF x >= Len(line) THEN x
  ELSE LET cur == curRender + (IF line[x + 1] = "\t" THEN Len(TabStop) - 1 ELSE 0) + 1
       IN IF cur > render THEN x ELSE Render2XFrom(line, render, x + 1, cur)

(* Render2X(row, render) on row.line *)
Render2X(line, render) == Render2XFrom(line, render, 0, 0)

RECURSIVE X2RenderFrom(_, _, _, _)
X2RenderFrom(line, x, j, render) ==
  IF j >= x THEN render
  ELSE X2RenderFrom(line, x, j + 1,
                    render + (IF line[j + 1] = "\t" THEN Len(TabStop) - 1 ELSE 0) + 1)

(* X2Render that counts a tab as one column *)
X2RenderBytes(line, x) == x

(* X2Render(row, x) on row.line; the caller checks x <= len(line) *)
X2Render(line, x) == X2RenderFrom(line, x, 0, 0)

(* E.GetCurRow(): ok, and a panic when y is negative *)
GetCurRowOk(w) == w.y < Len(w.rows)

(* A variant of editorScroll without the two column tests. *)
editorScrollRowsOnly(w) ==
  IF w.fault # "none" THEN w
  ELSE IF GetCurRowOk(w) /\ w.y < 0 THEN Panic(w)
  ELSE IF GetCurRowOk(w) /\ w.x > Len(Row(w.rows, w.y).line) THEN Panic(w)
  ELSE
    LET renderX == IF GetCurRowOk(w) THEN X2Render(Row(w.rows, w.y).line, w.x) ELSE 0
        offRow1 == IF w.y < w.offRow THEN w.y ELSE w.offRow
        offRow2 == IF w.y >= offRow1 + w.screenRows THEN w.y - w.screenRows + 1 ELSE offRow1
    IN [w EXCEPT !.renderX = renderX, !.offRow = offRow2]

(* editorScroll *)
editorScroll(w) ==
  IF w.fault # "none" THEN w
  ELSE IF GetCurRowOk(w) /\ w.y < 0 THEN Panic(w)
  ELSE IF GetCurRowOk(w) /\ w.x > Len(Row(w.rows, w.y).line) THEN Panic(w)
  ELSE
    LET renderX == IF GetCurRowOk(w) THEN X2Render(Row(w.rows, w.y).line, w.x) ELSE 0
        offRow1 == IF w.y < w.offRow THEN w.y ELSE w.offRow
        offRow2 == IF w.y >= offRow1 + w.screenRows THEN w.y - w.screenRows + 1 ELSE offRow1
        offCol1 == IF renderX < w.offCol THEN renderX ELSE w.offCol
        offCol2 == IF renderX >= offCol1 + w.screenCols
                   THEN renderX - w.screenCols + 1 ELSE offCol1
    IN [w EXCEPT !.renderX = renderX, !.offRow = offRow2, !.offCol = offCol2]

(* A variant of editorMoveCursor without its last statement: x stays as    *)
(* the key left it.                                                        *)
editorMoveCursorNoSnap(w, key) ==
  IF w.fault # "none" THEN w
  ELSE IF GetCurRowOk(w) /\ w.y < 0 THEN Panic(w)
  ELSE
    LET ok == GetCurRowOk(w)
        lineLen == Len(Row(w.rows, w.y).line)
    IN CASE key = ArrowLeft ->
              IF w.x # 0 THEN [w EXCEPT !.x = w.x - 1]
              ELSE IF w.y > 0
              THEN IF w.y - 1 >= Len(w.rows) THEN Panic(w)
                   ELSE [w EXCEPT !.y = w.y - 1,
                                  !.x = Len(Row(w.rows, w.y - 1).line)]
              ELSE w
         [] key = ArrowRight ->
              IF ok /\ w.x < lineLen THEN [w EXCEPT !.x = w.x + 1]
              ELSE IF ok /\ w.x = lineLen THEN [w EXCEPT !.y = w.y + 1, !.x = 0]
              ELSE w
         [] key = ArrowUp -> IF w.y # 0 THEN [w EXCEPT !.y = w.y - 1] ELSE w
         [] key = ArrowDown ->
              IF w.y < Len(w.rows) THEN [w EXCEPT !.y = w.y + 1] ELSE w
         [] OTHER -> w

editorMoveCursor(w, key) ==
  IF w.fault # "none" THEN w
  ELSE IF GetCurRowOk(w) /\ w.y < 0 THEN Panic(w)
  ELSE
    LET ok == GetCurRowOk(w)
        lineLen == Len(Row(w.rows, w.y).line)
        (* the end of the function: x is brought back into the row *)
        Snap(w1) ==
          IF w1.fault # "none" THEN w1
          ELSE IF GetCurRowOk(w1) /\ w1.y < 0 THEN Panic(w1)
          ELSE IF GetCurRowOk(w1)
          THEN IF w1.x > Len(Row(w1.rows, w1.y).line)
               THEN [w1 EXCEPT !.x = Len(Row(w1.rows, w1.y).line)] ELSE w1
          ELSE [w1 EXCEPT !.x = 0]
    IN Snap(CASE key = ArrowLeft ->
                   IF w.x # 0 THEN [w EXCEPT !.x = w.x - 1]
                   ELSE IF w.y > 0
                   THEN IF w.y - 1 >= Len(w.rows) THEN Panic(w)
                        ELSE [w EXCEPT !.y = w.y - 1,
                                       !.x = Len(Row(w.rows, w.y - 1).line)]
                   ELSE w
              [] key = ArrowRight ->
                   IF ok /\ w.x < lineLen THEN [w EXCEPT !.x = w.x + 1]
                   ELSE IF ok /\ w.x = lineLen THEN [w EXCEPT !.y = w.y + 1, !.x = 0]
                   ELSE w
              [] key = ArrowUp -> IF w.y # 0 THEN [w EXCEPT !.y = w.y - 1] ELSE w
              [] key = ArrowDown ->
                   IF w.y < Len(w.rows) THEN [w EXCEPT !.y = w.y + 1] ELSE w
              [] OTHER -> w)

(* ---------------------------------------------------------------------- *)
(* Editing                                                                *)
(* ---------------------------------------------------------------------- *)

(* A variant of editorInsertNewLine that leaves the cursor on the row it   *)
(* was on.                                                                 *)
editorInsertNewLineStay(w) ==
  IF w.fault # "none" THEN w
  ELSE
    LET line == Row(w.rows, w.y).line
        Truncated(a) ==
          IF a.fault # "none" THEN a
          ELSE editorRenderRow([a EXCEPT !.rows[w.y + 1].line = SliceTo(line, w.x)], w.y)
        Below(w1) == IF w1.fault # "none" THEN w1 ELSE [w1 EXCEPT !.x = 0]
    IN Below(IF w.x = 0 THEN editorInsertRow(w, w.y, <<>>)
             ELSE IF ~InRows(w, w.y) THEN Panic(w)
             ELSE IF w.x < 0 \/ w.x > Len(line) THEN Panic(w)
             ELSE Truncated(editorInsertRow(w, w.y + 1, SliceFrom(line, w.x))))

editorInsertNewLine(w) ==
  IF w.fault # "none" THEN w
  ELSE
    LET line == Row(w.rows, w.y).line
        (* E.rows[E.y].line = line[:E.x]; editorRenderRow(&E.rows[E.y]) *)
        Truncated(a) ==
          IF a.fault # "none" THEN a
          ELSE editorRenderRow([a EXCEPT !.rows[w.y + 1].line = SliceTo(line, w.x)], w.y)
        (* E.y++; E.x = 0 *)
        Below(w1) == IF w1.fault # "none" THEN w1 ELSE [w1 EXCEPT !.y = w1.y + 1, !.x = 0]
    IN Below(IF w.x = 0 THEN editorInsertRow(w, w.y, <<>>)
             ELSE IF ~InRows(w, w.y) THEN Panic(w)
             ELSE IF w.x < 0 \/ w.x > Len(line) THEN Panic(w)
             ELSE Truncated(editorInsertRow(w, w.y + 1, SliceFrom(line, w.x))))

editorInsertChar(w, char) ==
  IF w.fault # "none" THEN w
  ELSE
    LET Insert(w1) == editorRowInsertChar(w1, w1.y, w1.x, char)
        Right(w2) == IF w2.fault # "none" THEN w2 ELSE [w2 EXCEPT !.x = w2.x + 1]
    IN Right(Insert(IF w.y = Len(w.rows) THEN editorInsertRow(w, Len(w.rows), <<>>) ELSE w))

editorDeleteChar(w) ==
  IF w.fault # "none" THEN w
  ELSE IF w.y = Len(w.rows)
  THEN [editorDeleteRow(w, Len(w.rows)) EXCEPT !.y = w.y - 1]
  ELSE IF w.x = 0 /\ w.y = 0 THEN w
  ELSE IF ~InRows(w, w.y) THEN Panic(w)
  ELSE IF w.x > 0
  THEN LET Left(w1) == IF w1.fault # "none" THEN w1 ELSE [w1 EXCEPT !.x = w.x - 1]
       IN Left(editorRowDeleteChar(w, w.y, w.x - 1))
  ELSE IF ~InRows(w, w.y - 1) THEN Panic(w)
  ELSE
    LET upLen == Len(Row(w.rows, w.y - 1).line)
        Up(w2) == IF w2.fault # "none" THEN w2 ELSE [w2 EXCEPT !.x = upLen, !.y = w.y - 1]
    IN Up(editorDeleteRow(editorRowAppendString(w, w.y - 1, Row(w.rows, w.y).line), w.y))

(* ---------------------------------------------------------------------- *)
(* Status message, syntax selection, file load and save                   *)
(* ---------------------------------------------------------------------- *)

(* StatusMessage(format, args): the message is kept by what it says.  The  *)
(* goroutine it starts is the action TimerExpire.                          *)
StatusMessage(w, message) == [w EXCEPT !.statusMessage = message]

(* the first profile of HighlightDatabase with a fileMatch entry that     *)
(* strings.Contains the extension, or NoSyntax                            *)
SyntaxFor(filename) ==
  LET dotIdx == StringsLastIndex(filename, <<".">>)
      ext == IF dotIdx # -1 THEN SliceFrom(filename, dotIdx) ELSE <<>>
      Matches(syn) == \E m \in 1..Len(syn.fileMatch) : StringsContains(syn.fileMatch[m], ext)
      hits == {k \in 1..Len(HighlightDatabase) : Matches(HighlightDatabase[k])}
  IN IF hits = {} THEN NoSyntax
     ELSE HighlightDatabase[CHOOSE k \in hits : \A j \in hits : k <= j]

editorSelectSyntaxHighlight(w) ==
  IF w.fault # "none" THEN w
  ELSE IF w.filename = EmptyFile THEN [w EXCEPT !.syntax = NoSyntax]
  ELSE
    LET RECURSIVE Loop(_, _, _)
        Loop(v, i, syn) ==
          IF i >= Len(v.rows) \/ v.fault # "none" THEN v
          ELSE LET Step(r) == Loop([v EXCEPT !.rows = r.rows, !.fault = r.fault], i + 1, syn)
               IN Step(editorRenderSyntax(v.rows, Row(v.rows, i), i, syn, RenderFuel(v.rows)))
        Selected(syn) ==
          IF syn = NoSyntax THEN [w EXCEPT !.syntax = NoSyntax]
          ELSE Loop([w EXCEPT !.syntax = syn], 0, syn)
    IN Selected(SyntaxFor(w.filename))

RECURSIVE ReadLines(_, _)
(* The ReadLine loop of editorOpen over the bytes of the file: a line ends *)
(* at "\n", which is dropped with a "\r" before it; bytes after the last   *)
(* "\n" are a line too.  cur is the line being read.                       *)
ReadLines(bytes, cur) ==
  IF bytes = <<>> THEN (IF cur = <<>> THEN <<>> ELSE <<cur>>)
  ELSE IF Head(bytes) = "\n"
  THEN <<(IF cur # <<>> /\ cur[Len(cur)] = "\r" THEN SliceTo(cur, Len(cur) - 1) ELSE cur)>>
         \o ReadLines(Tail(bytes), <<>>)
  ELSE ReadLines(Tail(bytes), Append(cur, Head(bytes)))

(* editorOpen(filename) when os.Open succeeds and the file holds bytes *)
editorOpen(w, filename, bytes) ==
  LET lines == ReadLines(bytes, <<>>)
      w1 == [w EXCEPT !.rows = [i \in 1..Len(lines) |-> NewRow(lines[i])],
                      !.filename = filename]
  IN editorRenderRows(editorSelectSyntaxHighlight(w1))

(* editorSave with "\n" for NewLine *)
RECURSIVE FileBytesLF(_)
FileBytesLF(rs) ==
  IF rs = <<>> THEN <<>> ELSE Head(rs).line \o <<"\n">> \o FileBytesLF(Tail(rs))

RECURSIVE FileBytes(_)
(* what editorSave writes: every row's line followed by NewLine *)
FileBytes(rs) ==
  IF rs = <<>> THEN <<>> ELSE Head(rs).line \o NewLine \o FileBytes(Tail(rs))

(* ---------------------------------------------------------------------- *)
(* Find                                                                   *)
(* ---------------------------------------------------------------------- *)

RECURSIVE FindLoopForward(_, _, _, _)
(* A variant of FindLoop that goes through the rows forwards whatever the  *)
(* direction is.                                                           *)
FindLoopForward(w, query, current, n) ==
  IF n = 0 THEN w
  ELSE
    LET c1 == current + 1
        c2 == IF c1 = -1 THEN Len(w.rows) - 1 ELSE IF c1 = Len(w.rows) THEN 0 ELSE c1
    IN
    IF ~InRows(w, c2) THEN Panic(w)
    ELSE
      LET row == Row(w.rows, c2)
          match == StringsIndex(row.render, query)
      IN
      IF match = -1 THEN FindLoopForward(w, query, c2, n - 1)
      ELSE IF query # <<>> /\ match + Len(query) > Len(row.highlight) THEN Panic(w)
      ELSE [w EXCEPT !.lastMatch = c2,
                     !.y = c2,
                     !.x = Render2X(row.line, match),
                     !.offRow = Len(w.rows),
                     !.highlightRowIndex = c2,
                     !.highlightRowContent = row.highlight,
                     !.rows[c2 + 1].highlight =
                        Paint(row.highlight, match, match + Len(query), HighlightMatch)]

RECURSIVE FindLoop(_, _, _, _)
(* the "for range E.rows" loop of editorFindCallBack, n iterations left *)
FindLoop(w, query, current, n) ==
  IF n = 0 THEN w
  ELSE
    LET c1 == current + w.direction
        c2 == IF c1 = -1 THEN Len(w.rows) - 1 ELSE IF c1 = Len(w.rows) THEN 0 ELSE c1
    IN
    IF ~InRows(w, c2) THEN Panic(w)
    ELSE
      LET row == Row(w.rows, c2)
          match == StringsIndex(row.render, query)
      IN
      IF match = -1 THEN FindLoop(w, query, c2, n - 1)
      ELSE IF query # <<>> /\ match + Len(query) > Len(row.highlight) THEN Panic(w)
      ELSE [w EXCEPT !.lastMatch = c2,
                     !.y = c2,
                     !.x = Render2X(row.line, match),
                     !.offRow = Len(w.rows),
                     !.highlightRowIndex = c2,
                     !.highlightRowContent = row.highlight,
                     !.rows[c2 + 1].highlight =
                        Paint(row.highlight, match, match + Len(query), HighlightMatch)]

editorFindCallBack(w, query, key) ==
  IF w.fault # "none" THEN w
  ELSE IF w.highlightRowIndex # -1 /\ ~InRows(w, w.highlightRowIndex) THEN Panic(w)
  ELSE
    LET (* the search and the message that ends the function *)
        Search(w3) ==
          LET Said(w4) == IF w4.fault # "none" THEN w4 ELSE StatusMessage(w4, "notfound")
          IN Said(FindLoop(w3, query, w3.lastMatch, Len(w3.rows)))
        Forward(w2) == Search(IF w2.lastMatch = -1 THEN [w2 EXCEPT !.direction = 1] ELSE w2)
        (* the key: end of the search, a direction, or a new search *)
        Keyed(w1) ==
          IF key = EndKey \/ key = EscapeChar
          THEN [w1 EXCEPT !.lastMatch = -1, !.direction = 1]
          ELSE Forward(IF key = ArrowRight \/ key = ArrowDown THEN [w1 EXCEPT !.direction = 1]
                       ELSE IF key = ArrowLeft \/ key = ArrowUp THEN [w1 EXCEPT !.direction = -1]
                       ELSE [w1 EXCEPT !.lastMatch = -1, !.direction = 1])
    IN Keyed(IF w.highlightRowIndex # -1
             THEN [w EXCEPT !.rows[w.highlightRowIndex + 1].highlight = w.highlightRowContent,
                            !.highlightRowIndex = -1]
             ELSE w)

(* ---------------------------------------------------------------------- *)
(* State                                                                  *)
(* ---------------------------------------------------------------------- *)

VARIABLES
  x, y, renderX, screenRows, screenCols, offRow, offCol,
  rows, syntax, dirty, filename, statusMessage,
  quitTimes, lastMatch, direction, highlightRowIndex, highlightRowContent,
  pc, mode, promptBuffer, lastX, lastY, lastOffCol, lastOffRow,
  exitCode, disk, saveError, quitRun,
  termios, originTermios, now, timers, setAt,
  stdin, char

(* pc: "draw" (the loop is about to call editorRefreshScreen), "key" (it   *)
(* is about to read a key), "exit" (os.Exit ran), "panic", "hang",         *)
(* "killed" (a signal ended the process).                                  *)
(* mode: "edit" (main loop), "find" and "saveas" (the loop of editorPrompt *)
(* called from editorFind and from editorSave); promptBuffer is the        *)
(* prompt's buffer; lastX, lastY, lastOffCol, lastOffRow are the locals of *)
(* editorFind (0 outside it).  disk is the content of the file that        *)
(* editorSave wrote last, or that was loaded; saveError is what went wrong *)
(* in the editorSave of the last key: "none", "open" (os.OpenFile          *)
(* returned an error) or "write" (a write or the Flush did).  quitRun is a history        *)
(* variable: the number of Ctrl-Q keys that editorProcessKeyPress has read *)
(* in a row up to now.  termios holds the attributes of the terminal and   *)
(* originTermios the copy of them that EnableRawMode took.  now is the     *)
(* time in seconds since the start, timers the times at which the          *)
(* goroutines started by StatusMessage wake up, and setAt the time of the  *)
(* last call of StatusMessage.  stdin holds the bytes that the terminal    *)
(* has sent and no Read has taken yet, and char the result of the last     *)
(* editorReadKey that was decoded from them; where a step takes the key    *)
(* as its parameter both stay as they are.                                 *)

eVars ==
  <<x, y, renderX, screenRows, screenCols, offRow, offCol,
    rows, syntax, dirty, filename, statusMessage,
    quitTimes, lastMatch, direction, highlightRowIndex, highlightRowContent>>

findLocals == <<lastX, lastY, lastOffCol, lastOffRow>>

tty == <<termios, originTermios>>

clock == <<now, timers, setAt>>

input == <<stdin, char>>

vars ==
  <<eVars, pc, mode, promptBuffer, findLocals, exitCode, disk, saveError, quitRun,
    tty, clock, input>>

World ==
  [x |-> x, y |-> y, renderX |-> renderX,
   screenRows |-> screenRows, screenCols |-> screenCols,
   offRow |-> offRow, offCol |-> offCol,
   rows |-> rows, syntax |-> syntax, dirty |-> dirty,
   filename |-> filename, statusMessage |-> statusMessage,
   quitTimes |-> quitTimes, lastMatch |-> lastMatch, direction |-> direction,
   highlightRowIndex |-> highlightRowIndex,
   highlightRowContent |-> highlightRowContent,
   fault |-> "none"]

SetWorld(w) ==
  /\ x' = w.x /\ y' = w.y /\ renderX' = w.renderX
  /\ screenRows' = w.screenRows /\ screenCols' = w.screenCols
  /\ offRow' = w.offRow /\ offCol' = w.offCol
  /\ rows' = w.rows /\ syntax' = w.syntax /\ dirty' = w.dirty
  /\ filename' = w.filename /\ statusMessage' = w.statusMessage
  /\ quitTimes' = w.quitTimes /\ lastMatch' = w.lastMatch /\ direction' = w.direction
  /\ highlightRowIndex' = w.highlightRowIndex
  /\ highlightRowContent' = w.highlightRowContent

(* time.After(5 * time.Second) in StatusMessage *)
StatusTimeout == 5

(* the terminal as EnableRawMode finds it, and what it makes of it *)
Cooked == [echo |-> TRUE, icanon |-> TRUE, isig |-> TRUE, opost |-> TRUE]

EnableRawMode(t) ==
  [t EXCEPT !.echo = FALSE, !.icanon = FALSE, !.isig = FALSE, !.opost = FALSE]

(* DisableRawMode(): tcSetAttr of the copy that EnableRawMode kept *)
DisableRawMode ==
  /\ termios' = originTermios
  /\ UNCHANGED originTermios

(* A fault ends the process where it is: an endless loop goes on for ever, *)
(* a panic of the main goroutine runs the deferred DisableRawMode of main  *)
(* and ends the process.                                                   *)
Fault(w) ==
  /\ pc' = w.fault
  /\ IF w.fault = "panic" THEN DisableRawMode ELSE UNCHANGED tty
  /\ UNCHANGED input
  /\ UNCHANGED <<eVars, mode, promptBuffer, findLocals, exitCode, disk>>

(* exit(code): the screen is cleared, raw mode left, os.Exit(code) *)
Exit(code) ==
  /\ pc' = "exit"
  /\ exitCode' = code
  /\ DisableRawMode
  /\ UNCHANGED input
  /\ UNCHANGED <<eVars, mode, promptBuffer, findLocals, disk>>

RECURSIVE TotalBytes(_)
TotalBytes(rs) == IF rs = <<>> THEN 0 ELSE Len(Head(rs).line) + TotalBytes(Tail(rs))

(* The buffers the model explores: lim = [rows, bytes, prompt] *)
Within(w, lim) == Len(w.rows) <= lim.rows /\ TotalBytes(w.rows) <= lim.bytes

(* var quitTimes = 3 *)
QuitTimes == 3

(* A variant of QuitWarns that counts one confirmation too few. *)
QuitWarnsOneLess(w) == w.dirty /\ w.quitTimes > 1

(* case ctrlKey('q'): the test that answers Ctrl-Q with the warning *)
QuitWarns(w) == w.dirty /\ w.quitTimes > 0

(* A variant of ResetQuitTimes that leaves the counter as it is. *)
KeepQuitTimes(w) == w

(* the last statement of editorProcessKeyPress *)
ResetQuitTimes(w) == [w EXCEPT !.quitTimes = QuitTimes]

(* ---------------------------------------------------------------------- *)
(* Start: main() up to its loop                                           *)
(* ---------------------------------------------------------------------- *)

(* arg: [given |-> FALSE], or [given |-> TRUE, name, bytes] for a file     *)
(* that os.Open opens; size: what GetWindowSize returns, <<rows, cols>>.   *)
Start(arg, size) ==
  LET w0 == [x |-> 0, y |-> 0, renderX |-> 0,
             screenRows |-> size[1] - 2, screenCols |-> size[2],
             offRow |-> 0, offCol |-> 0,
             rows |-> <<>>, syntax |-> NoSyntax, dirty |-> FALSE,
             filename |-> EmptyFile, statusMessage |-> "",
             quitTimes |-> QuitTimes, lastMatch |-> -1, direction |-> 1,
             highlightRowIndex |-> -1, highlightRowContent |-> <<>>,
             fault |-> "none"]
      w1 == IF arg.given THEN editorOpen(w0, arg.name, arg.bytes) ELSE w0
  IN StatusMessage(w1, "help")

InitFrom(w, arg) ==
  /\ x = w.x /\ y = w.y /\ renderX = w.renderX
  /\ screenRows = w.screenRows /\ screenCols = w.screenCols
  /\ offRow = w.offRow /\ offCol = w.offCol
  /\ rows = w.rows /\ syntax = w.syntax /\ dirty = w.dirty
  /\ filename = w.filename /\ statusMessage = w.statusMessage
  /\ quitTimes = w.quitTimes /\ lastMatch = w.lastMatch
  /\ direction = w.direction
  /\ highlightRowIndex = w.highlightRowIndex
  /\ highlightRowContent = w.highlightRowContent
  /\ pc = "draw" /\ mode = "edit" /\ promptBuffer = <<>>
  /\ lastX = 0 /\ lastY = 0 /\ lastOffCol = 0 /\ lastOffRow = 0
  /\ exitCode = -1
  /\ disk = IF arg.given THEN arg.bytes ELSE <<>>
  /\ saveError = "none"
  /\ quitRun = 0
  /\ originTermios = Cooked
  /\ termios = EnableRawMode(Cooked)
  /\ now = 0 /\ timers = {StatusTimeout} /\ setAt = 0

(* no byte is pending and no key has been decoded *)
NoInput == stdin = <<>> /\ char = ""

InitWith(args, sizes) ==
  /\ \E arg \in args, size \in sizes : InitFrom(Start(arg, size), arg)
  /\ NoInput

(* ---------------------------------------------------------------------- *)
(* Refresh                                                                *)
(* ---------------------------------------------------------------------- *)

(* The goroutine that a call of StatusMessage starts wakes up              *)
(* StatusTimeout seconds later, or after that.                             *)
StartTimer ==
  /\ timers' = timers \cup {now + StatusTimeout}
  /\ setAt' = now
  /\ UNCHANGED now

(* editorDrawRows reads highlight[offCol : offCol+l] of every visible row  *)
(* with l > 0 bytes of render to show: a panic when highlight is shorter.  *)
DrawRowsPanics(w) ==
  \E yy \in 0..(w.screenRows - 1) :
    LET rowIndex == yy + w.offRow
    IN /\ rowIndex < Len(w.rows)
       /\ (rowIndex < 0
           \/ LET row == Row(w.rows, rowIndex)
                  l == Min(Len(row.render) - w.offCol, w.screenCols)
              IN l > 0 /\ w.offCol + l > Len(row.highlight))

(* editorRefreshScreen: scroll, then compose and write the frame (the      *)
(* bytes of the frame are not part of the state).                         *)
editorRefreshScreen(w) ==
  LET Drawn(w1) ==
        IF w1.fault # "none" THEN w1
        ELSE IF DrawRowsPanics(w1) THEN Panic(w1)
        ELSE w1
  IN Drawn(editorScroll(w))

(* The refresh of the main loop, or of the prompt loop after it has set   *)
(* the status message to the prompt.                                      *)
RefreshScreen ==
  /\ pc = "draw"
  /\ LET Shown(w) ==
           IF w.fault # "none" THEN Fault(w)
           ELSE /\ SetWorld(w)
                /\ pc' = "key"
                /\ UNCHANGED <<mode, promptBuffer, findLocals, exitCode, tty, input, disk>>
     IN Shown(editorRefreshScreen(
                IF mode = "edit" THEN World ELSE StatusMessage(World, "prompt")))
  /\ IF mode = "edit" THEN UNCHANGED clock ELSE StartTimer
  /\ UNCHANGED <<saveError, quitRun>>

(* The goroutine of an earlier StatusMessage clears the message. *)
TimerExpire ==
  /\ pc \in {"draw", "key"}
  /\ statusMessage # ""
  /\ statusMessage' = ""
  /\ UNCHANGED <<x, y, renderX, screenRows, screenCols, offRow, offCol,
                 rows, syntax, dirty, filename,
                 quitTimes, lastMatch, direction, highlightRowIndex,
                 highlightRowContent,
                 pc, mode, promptBuffer, findLocals, exitCode, disk,
                 saveError, quitRun, tty, input, clock>>

(* ---------------------------------------------------------------------- *)
(* Command dispatcher                                                     *)
(* ---------------------------------------------------------------------- *)

RECURSIVE MoveTimes(_, _, _)
MoveTimes(w, key, times) ==
  IF times <= 0 THEN w ELSE MoveTimes(editorMoveCursor(w, key), key, times - 1)

(* A variant of KeyCommand whose End key puts the cursor on the last byte  *)
(* of the row and not behind it.                                           *)
KeyCommandEndOnLast(w, c) ==
  CASE c = Enter -> editorInsertNewLine(w)
    [] c = PageUp ->
         MoveTimes([w EXCEPT !.y = w.offRow], ArrowUp, w.screenRows)
    [] c = PageDown ->
         LET y1 == w.offRow + w.screenRows - 1
             y2 == IF y1 > Len(w.rows) THEN Len(w.rows) ELSE y1
         IN MoveTimes([w EXCEPT !.y = y2], ArrowDown, w.screenRows)
    [] c = HomeKey -> [w EXCEPT !.x = 0]
    [] c = EndKey ->
         IF w.y < Len(w.rows)
         THEN IF w.y < 0 THEN Panic(w) ELSE [w EXCEPT !.x = Len(Row(w.rows, w.y).line) - 1]
         ELSE w
    [] c = DelKey -> editorDeleteChar(editorMoveCursor(w, ArrowRight))
    [] c \in {Backspace, CtrlH} -> editorDeleteChar(w)
    [] c \in {ArrowUp, ArrowDown, ArrowRight, ArrowLeft} -> editorMoveCursor(w, c)
    [] c \in {CtrlL, EscapeChar} -> w
    [] OTHER -> editorInsertChar(w, c)

(* The cases of the switch of editorProcessKeyPress that neither leave the *)
(* program nor read further keys.                                         *)
KeyCommand(w, c) ==
  CASE c = Enter -> editorInsertNewLine(w)
    [] c = PageUp ->
         MoveTimes([w EXCEPT !.y = w.offRow], ArrowUp, w.screenRows)
    [] c = PageDown ->
         LET y1 == w.offRow + w.screenRows - 1
             y2 == IF y1 > Len(w.rows) THEN Len(w.rows) ELSE y1
         IN MoveTimes([w EXCEPT !.y = y2], ArrowDown, w.screenRows)
    [] c = HomeKey -> [w EXCEPT !.x = 0]
    [] c = EndKey ->
         IF w.y < Len(w.rows)
         THEN IF w.y < 0 THEN Panic(w) ELSE [w EXCEPT !.x = Len(Row(w.rows, w.y).line)]
         ELSE w
    [] c = DelKey -> editorDeleteChar(editorMoveCursor(w, ArrowRight))
    [] c \in {Backspace, CtrlH} -> editorDeleteChar(w)
    [] c \in {ArrowUp, ArrowDown, ArrowRight, ArrowLeft} -> editorMoveCursor(w, c)
    [] c \in {CtrlL, EscapeChar} -> w
    [] OTHER -> editorInsertChar(w, c)

(* The rest of editorSave once the file name is known: the file is opened  *)
(* (and truncated) or the program exits with code 1; the rows are written  *)
(* through a buffered writer whose errors are not looked at.               *)
SaveFile(w, openOk, writeOk) ==
  IF ~openOk THEN Exit(1) /\ saveError' = "open"
  ELSE /\ saveError' = IF writeOk THEN "none" ELSE "write"
       /\ SetWorld(ResetQuitTimes([StatusMessage(w, "written") EXCEPT !.dirty = FALSE]))
       /\ disk' = IF writeOk THEN FileBytes(w.rows) ELSE <<>>
       /\ pc' = "draw"
       /\ mode' = "edit"
       /\ promptBuffer' = <<>>
       /\ UNCHANGED <<findLocals, exitCode, tty, input>>

(* os.OpenFile of the empty name always fails; any other open or write may *)
(* fail.                                                                   *)
Save(w) ==
  \E openOk \in BOOLEAN, writeOk \in BOOLEAN :
    /\ (w.filename = <<>> => ~openOk)
    /\ (~openOk => writeOk)
    /\ SaveFile(w, openOk, writeOk)

(* editorProcessKeyPress for the key c read in the main loop *)
ProcessKey(c, lim) ==
  /\ pc = "key"
  /\ mode = "edit"
  /\ quitRun' = IF c = CtrlQ THEN quitRun + 1 ELSE 0
  /\ StartTimer
  /\ IF c = CtrlS /\ filename # EmptyFile THEN TRUE ELSE saveError' = "none"
  /\ LET w0 == StatusMessage(World, "key")
         (* after the switch: quitTimes = 3, back to the loop *)
         Done(w1) ==
           IF w1.fault # "none" THEN Fault(w1)
           ELSE /\ Within(w1, lim)
                /\ SetWorld(ResetQuitTimes(w1))
                /\ pc' = "draw"
                /\ UNCHANGED <<mode, promptBuffer, findLocals, exitCode, tty, input, disk>>
     IN
     IF c = CtrlQ
     THEN IF QuitWarns(w0)
          THEN /\ SetWorld([StatusMessage(w0, "warning") EXCEPT !.quitTimes = quitTimes - 1])
               /\ pc' = "draw"
               /\ UNCHANGED <<mode, promptBuffer, findLocals, exitCode, tty, input, disk>>
          ELSE Exit(0)
     ELSE IF c = CtrlS
     THEN IF filename = EmptyFile
          THEN /\ SetWorld(w0)
               /\ pc' = "draw"
               /\ mode' = "saveas"
               /\ promptBuffer' = <<>>
               /\ UNCHANGED <<findLocals, exitCode, tty, input, disk>>
          ELSE Save(w0)
     ELSE IF c = CtrlF
     THEN /\ SetWorld(w0)
          /\ lastX' = x /\ lastY' = y /\ lastOffCol' = offCol /\ lastOffRow' = offRow
          /\ pc' = "draw"
          /\ mode' = "find"
          /\ promptBuffer' = <<>>
          /\ UNCHANGED <<exitCode, tty, input, disk>>
     ELSE Done(KeyCommand(w0, c))

(* editorFind that leaves the cursor where the search put it *)
editorFindKeep(w) == w

(* editorFind after the prompt: cursor and scroll put back *)
editorFindRestore(w) ==
  IF w.fault # "none" THEN w
  ELSE [w EXCEPT !.x = lastX, !.y = lastY,
                 !.offCol = lastOffCol, !.offRow = lastOffRow]

(* One iteration of the loop of editorPrompt for the key c, followed, when *)
(* the prompt returns, by the rest of editorFind or editorSave and of      *)
(* editorProcessKeyPress.                                                  *)
PromptKey(c, lim) ==
  /\ pc = "key"
  /\ mode \in {"find", "saveas"}
  /\ quitRun' = 0
  /\ IF c \in {Enter, EscapeChar} THEN StartTimer ELSE UNCHANGED clock
  /\ IF c = Enter /\ mode = "saveas" THEN TRUE ELSE saveError' = "none"
  /\ LET Callback(w, buffer) ==
           IF mode = "find" THEN editorFindCallBack(w, buffer, c) ELSE w
         (* the prompt has returned: the rest of the command, and           *)
         (* quitTimes = 3                                                   *)
         Return(w) ==
           IF w.fault # "none" THEN Fault(w)
           ELSE /\ SetWorld(ResetQuitTimes(w))
                /\ pc' = "draw"
                /\ mode' = "edit"
                /\ promptBuffer' = <<>>
                /\ lastX' = 0 /\ lastY' = 0 /\ lastOffCol' = 0 /\ lastOffRow' = 0
                /\ UNCHANGED <<exitCode, tty, input, disk>>
         (* the prompt goes on with buffer *)
         Continue(w, buffer) ==
           IF w.fault # "none" THEN Fault(w)
           ELSE /\ SetWorld(w)
                /\ pc' = "draw"
                /\ promptBuffer' = buffer
                /\ UNCHANGED <<mode, findLocals, exitCode, tty, input, disk>>
         (* editorSave after the prompt has returned the name in w.filename *)
         Named(w2) == IF w2.fault # "none" THEN Fault(w2) /\ saveError' = "none" ELSE Save(w2)
         Shorter(buffer) == Continue(Callback(World, buffer), buffer)
     IN
     IF c = Enter
     THEN IF mode = "find"
          THEN Return(editorFindRestore(Callback(StatusMessage(World, ""), promptBuffer)))
          ELSE Named(editorSelectSyntaxHighlight(
                       [StatusMessage(World, "") EXCEPT !.filename = promptBuffer]))
     ELSE IF c \in {DelKey, CtrlH, Backspace}
     THEN IF promptBuffer = <<>> THEN Continue(World, promptBuffer)
          ELSE Shorter(SliceTo(promptBuffer, Len(promptBuffer) - 1))
     ELSE IF c = EscapeChar
     THEN IF mode = "find"
          THEN Return(editorFindRestore(Callback(StatusMessage(World, ""), promptBuffer)))
          ELSE Return(StatusMessage(World, "aborted"))
     ELSE LET buffer == IF ~IsControl(c) /\ c \notin SpecialKeys
                        THEN Append(promptBuffer, c) ELSE promptBuffer
          IN /\ Len(buffer) <= lim.prompt
             /\ Continue(Callback(World, buffer), buffer)

(* ---------------------------------------------------------------------- *)
(* Key decoder                                                            *)
(* ---------------------------------------------------------------------- *)

(* editorMapArrowKey with the letters of up and down exchanged *)
editorMapArrowKeySwapped(key) ==
  CASE key = "A" -> ArrowDown
    [] key = "B" -> ArrowUp
    [] key = "C" -> ArrowRight
    [] key = "D" -> ArrowLeft
    [] OTHER -> EscapeChar

editorMapArrowKey(key) ==
  CASE key = "A" -> ArrowUp
    [] key = "B" -> ArrowDown
    [] key = "C" -> ArrowRight
    [] key = "D" -> ArrowLeft
    [] OTHER -> EscapeChar

(* editorReadMoreKey that hands back the one byte it got as the key *)
editorReadMoreKeyByte(in, size2, size1) ==
  IF size2 = 1 THEN [char |-> in[1], rest |-> SliceFrom(in, 1)]
  ELSE [char |-> EscapeChar, rest |-> SliceFrom(in, Min(size2, 2))]

(* editorReadMoreKey() on the bytes in that follow ESC.  size2 is what the *)
(* Read into the two-byte buffer returns and size1 what the Read of the    *)
(* third byte returns: with VMIN 0 and VTIME 1 a Read gives the bytes that *)
(* have arrived, fewer than asked for or none.  The result is the key and  *)
(* the bytes not read.                                                     *)
editorReadMoreKey(in, size2, size1) ==
  IF size2 # 2 THEN [char |-> EscapeChar, rest |-> SliceFrom(in, size2)]
  ELSE
    LET b0 == in[1]
        b1 == in[2]
        in2 == SliceFrom(in, 2)
    IN IF b0 = "["
       THEN IF b1 \in Digits
            THEN IF size1 # 1 THEN [char |-> EscapeChar, rest |-> in2]
                 ELSE [char |-> IF in2[1] = "~"
                                THEN CASE b1 = "1" -> HomeKey
                                       [] b1 = "3" -> DelKey
                                       [] b1 = "4" -> EndKey
                                       [] b1 = "5" -> PageUp
                                       [] b1 = "6" -> PageDown
                                       [] b1 = "7" -> HomeKey
                                       [] b1 = "8" -> EndKey
                                       [] OTHER -> EscapeChar
                                ELSE EscapeChar,
                       rest |-> SliceFrom(in2, 1)]
            ELSE [char |-> CASE b1 \in {"A", "B", "C", "D"} -> editorMapArrowKey(b1)
                             [] b1 = "H" -> HomeKey
                             [] b1 = "F" -> EndKey
                             [] OTHER -> EscapeChar,
                  rest |-> in2]
       ELSE IF b0 = "O"
       THEN [char |-> CASE b1 = "H" -> HomeKey
                        [] b1 = "F" -> EndKey
                        [] OTHER -> EscapeChar,
             rest |-> in2]
       ELSE [char |-> EscapeChar, rest |-> in2]

(* editorReadKey() once readRune has a byte: in is not empty *)
editorReadKey(in, size2, size1) ==
  IF Head(in) # EscapeChar THEN [char |-> Head(in), rest |-> Tail(in)]
  ELSE editorReadMoreKey(Tail(in), size2, size1)

(* One call of editorReadKey on the bytes of stdin; the Reads after ESC    *)
(* return size2 and size1 bytes, no more than there are.                   *)
ReadKey(size2, size1) ==
  /\ stdin # <<>>
  /\ size2 <= Len(stdin) - 1
  /\ size1 <= Len(stdin) - 1 - size2
  /\ LET Got(r) == char' = r.char /\ stdin' = r.rest
     IN Got(editorReadKey(stdin, size2, size1))
  /\ UNCHANGED <<eVars, pc, mode, promptBuffer, findLocals, exitCode, disk, saveError,
                 quitRun, tty, clock>>

(* ---------------------------------------------------------------------- *)
(* Window size                                                            *)
(* ---------------------------------------------------------------------- *)

(* ioctlGetWinSize(&ws) when the kernel answers kernel = [errNo, row,      *)
(* col].  The ioctl is given &ws, the address of the parameter, which is   *)
(* itself the pointer to the caller's WinSize: the kernel writes the size  *)
(* over that pointer, and the WinSize of the caller keeps its zero value.  *)
ioctlGetWinSize(kernel) ==
  [errNo |-> kernel.errNo, ws |-> [Row |-> 0, Col |-> 0]]

(* the number that fmt.Sscanf reads for %d at the start of s (digits only) *)
RECURSIVE ScanInt(_, _, _)
ScanInt(s, value, seen) ==
  IF s # <<>> /\ Head(s) \in Digits
  THEN ScanInt(Tail(s),
               value * 10 + (CHOOSE n \in 0..9 :
                               <<"0", "1", "2", "3", "4", "5", "6", "7", "8", "9">>[n + 1] = Head(s)),
               TRUE)
  ELSE [ok |-> seen, value |-> value, rest |-> s]

(* fmt.Sscanf(response, "%d;%d", &row, &col): what was not read stays 0 *)
ScanRowCol(response) ==
  LET Second(r, c) == <<r.value, IF c.ok THEN c.value ELSE 0>>
      First(r) == IF ~r.ok THEN <<0, 0>>
                  ELSE IF r.rest # <<>> /\ Head(r.rest) = ";"
                  THEN Second(r, ScanInt(Tail(r.rest), 0, FALSE))
                  ELSE <<r.value, 0>>
  IN First(ScanInt(response, 0, FALSE))

(* GetCursorPosition() on the pending bytes in: bytes are read up to an R, *)
(* 32 at most; readRune waits for ever when they run out before that; the  *)
(* first two bytes are cut off (a panic when there is only one).           *)
GetCursorPosition(in) ==
  LET ends == {i \in 1..Min(Len(in), 32) : in[i] = "R"}
      n == IF ends # {} THEN CHOOSE i \in ends : \A j \in ends : i <= j
           ELSE IF Len(in) >= 32 THEN 32 ELSE 0
  IN IF n = 0 THEN [fault |-> "hang", size |-> <<0, 0>>, rest |-> <<>>]
     ELSE IF n < 2 THEN [fault |-> "panic", size |-> <<0, 0>>, rest |-> SliceFrom(in, n)]
     ELSE [fault |-> "none",
           size |-> ScanRowCol(SubSeq(in, 3, n)),
           rest |-> SliceFrom(in, n)]

(* GetWindowSize() *)
GetWindowSize(kernel, in) ==
  LET Sized(r) ==
        IF r.ws.Col # 0 THEN [fault |-> "none", size |-> <<r.ws.Row, r.ws.Col>>, rest |-> in]
        ELSE IF r.errNo = 0 THEN GetCursorPosition(in)
        ELSE [fault |-> "exit", size |-> <<0, 0>>, rest |-> in]
  IN Sized(ioctlGetWinSize(kernel))

(* main() from initEditor to the loop, for the file name with the bytes of *)
(* disk, when the kernel answers the size query with kernel and the        *)
(* terminal's answer to the position request is pending in stdin.          *)
InitEditor(name, kernel) ==
  /\ pc = "init"
  /\ LET Sized(r) ==
           IF r.fault = "exit" THEN Exit(1) /\ UNCHANGED clock
           ELSE IF r.fault \in {"hang", "panic"}
           THEN /\ pc' = r.fault
                /\ IF r.fault = "panic" THEN DisableRawMode ELSE UNCHANGED tty
                /\ stdin' = r.rest
                /\ UNCHANGED <<eVars, mode, promptBuffer, findLocals, exitCode, disk, char, clock>>
           ELSE /\ SetWorld(Start([given |-> TRUE, name |-> name, bytes |-> disk], r.size))
                /\ pc' = "draw"
                /\ stdin' = r.rest
                /\ StartTimer
                /\ UNCHANGED <<mode, promptBuffer, findLocals, exitCode, disk, tty, char>>
     IN Sized(GetWindowSize(kernel, stdin))
  /\ UNCHANGED <<saveError, quitRun>>

(* ---------------------------------------------------------------------- *)
(* Specifications                                                         *)
(* ---------------------------------------------------------------------- *)

NoArg == [given |-> FALSE]

FileArg(name, bytes) == [given |-> TRUE, name |-> name, bytes |-> bytes]

(* the terminal: 4 lines of 3 columns, so 2 text rows *)
WindowSizes == {<<4, 3>>}

(* Spec: editing, cursor movement and quitting, from an empty buffer and   *)
(* from a C file whose first line opens a comment.                         *)
MaxRows == 3
MaxBytes == 2

Limits == [rows |-> MaxRows, bytes |-> MaxBytes, prompt |-> 0]

TypedBytes == {"/", "*", "\t"}

Keys ==
  TypedBytes \cup
  {Enter, Backspace, CtrlH, DelKey, ArrowLeft, ArrowRight, ArrowUp, ArrowDown,
   HomeKey, EndKey, PageUp, PageDown, CtrlQ, CtrlL, EscapeChar}

Args ==
  {NoArg,
   FileArg(<<"a", ".", "c">>, <<"/", "*", "\n", "\t", "\n">>)}

Init == InitWith(Args, WindowSizes)

Next ==
  \/ \E c \in Keys : ProcessKey(c, Limits)
  \/ RefreshScreen
  \/ TimerExpire

Spec == Init /\ [][Next]_vars

(* SpecPrompt: the commands that read further keys (find, save as) beside  *)
(* a few editing keys and Ctrl-Q, on a buffer of one row.                  *)
PromptMaxRows == 1
PromptMaxBytes == 2
MaxPrompt == 1

PromptLimits == [rows |-> PromptMaxRows, bytes |-> PromptMaxBytes, prompt |-> MaxPrompt]

PromptKeys == {"/", Enter, Backspace, ArrowDown, EscapeChar, CtrlF, CtrlS, CtrlQ}

PromptArgs == {NoArg, FileArg(<<"t">>, <<"/", "\n">>)}

InitPrompt == InitWith(PromptArgs, WindowSizes)

NextPrompt ==
  \/ \E c \in PromptKeys : ProcessKey(c, PromptLimits)
  \/ \E c \in PromptKeys : PromptKey(c, PromptLimits)
  \/ RefreshScreen
  \/ TimerExpire

SpecPrompt == InitPrompt /\ [][NextPrompt]_vars

(* SpecSave: typing, saving and saving under a new name on a buffer of two *)
(* rows; Ctrl-J is a typed byte like any other unbound key.                *)
SaveMaxRows == 2
SaveMaxBytes == 2
SaveMaxPrompt == 1

SaveLimits == [rows |-> SaveMaxRows, bytes |-> SaveMaxBytes, prompt |-> SaveMaxPrompt]

SaveKeys == {"h", "\n", Enter, Backspace, EscapeChar, CtrlS}

SaveArgs == {NoArg, FileArg(<<"t">>, <<"h", "\r", "\n">>)}

InitSave == InitWith(SaveArgs, WindowSizes)

NextSave ==
  \/ \E c \in SaveKeys : ProcessKey(c, SaveLimits)
  \/ \E c \in SaveKeys : PromptKey(c, SaveLimits)
  \/ RefreshScreen
  \/ TimerExpire

SpecSave == InitSave /\ [][NextSave]_vars

(* SpecColumns: Render2X and X2Render on one row.  The row is a loaded     *)
(* line of at most ColumnsMaxLen bytes, tabs among them; x and renderX     *)
(* are any column of the line and any render column up to                  *)
(* ColumnsMaxRender, and each step converts one into the other as          *)
(* editorScroll (x to renderX) and editorFindCallBack (render column to x) *)
(* do.                                                                     *)
ColumnsMaxLen == 3
ColumnsMaxRender == 13

ColumnBytes == {"a", "\t"}

ColumnLines == UNION {[1..n -> ColumnBytes] : n \in 0..ColumnsMaxLen}

InitColumns ==
  \E line \in ColumnLines, c \in 0..ColumnsMaxLen, r \in 0..ColumnsMaxRender, size \in WindowSizes :
    /\ c <= Len(line)
    /\ InitFrom([Start(FileArg(<<"t">>, line \o <<"\n">>), size) EXCEPT !.x = c, !.renderX = r],
                NoArg)
    /\ NoInput

(* E.renderX = X2Render(row, E.x) *)
ToRender ==
  /\ x <= Len(rows[1].line)
  /\ renderX' = X2Render(rows[1].line, x)
  /\ UNCHANGED <<x, y, screenRows, screenCols, offRow, offCol, rows, syntax, dirty,
                 filename, statusMessage, quitTimes, lastMatch, direction,
                 highlightRowIndex, highlightRowContent>>
  /\ UNCHANGED <<pc, mode, promptBuffer, findLocals, exitCode, tty, input, clock, disk, saveError, quitRun>>

(* E.x = Render2X(&row, match) *)
ToX ==
  /\ x' = Render2X(rows[1].line, renderX)
  /\ UNCHANGED <<y, renderX, screenRows, screenCols, offRow, offCol, rows, syntax, dirty,
                 filename, statusMessage, quitTimes, lastMatch, direction,
                 highlightRowIndex, highlightRowContent>>
  /\ UNCHANGED <<pc, mode, promptBuffer, findLocals, exitCode, tty, input, clock, disk, saveError, quitRun>>

NextColumns == ToRender \/ ToX

SpecColumns == InitColumns /\ [][NextColumns]_vars

(* SpecTerminal: the ways the process ends once raw mode is on.  Beside    *)
(* the steps of SpecPrompt (Ctrl-Q, a save that cannot open its file, a    *)
(* panic of the main goroutine) a SIGTERM or SIGHUP may arrive at any      *)
(* time: the program installs no handler, the Go runtime ends the process  *)
(* at once and no deferred call runs.                                      *)
Signal ==
  /\ pc \in {"draw", "key"}
  /\ pc' = "killed"
  /\ UNCHANGED <<eVars, mode, promptBuffer, findLocals, exitCode, disk, saveError,
                 quitRun, tty, input, clock>>

NextTerminal == NextPrompt \/ Signal

SpecTerminal == InitPrompt /\ [][NextTerminal]_vars

(* SpecTimer: the status message and the goroutines that clear it, with    *)
(* time.  Time passes while the loop waits for a key; a goroutine whose    *)
(* wake-up time has come runs at any moment from then on, between any two  *)
(* steps of the main loop.  Goroutines that wake up at the same time act   *)
(* alike and are one element of timers.                                    *)
TimerMaxTime == 6
TimerMaxRows == 1
TimerMaxBytes == 1

TimerLimits == [rows |-> TimerMaxRows, bytes |-> TimerMaxBytes, prompt |-> 0]

TimerKeys == {"/", Backspace, ArrowLeft}

Tick ==
  /\ pc = "key"
  /\ now < TimerMaxTime
  /\ now' = now + 1
  /\ UNCHANGED <<eVars, pc, mode, promptBuffer, findLocals, exitCode, disk, saveError,
                 quitRun, tty, input, timers, setAt>>

(* case <-time.After(5 * time.Second): E.statusMessage = "" *)
TimerFire ==
  \E d \in timers :
    /\ d <= now
    /\ pc \in {"draw", "key"}
    /\ statusMessage' = ""
    /\ timers' = timers \ {d}
    /\ UNCHANGED <<x, y, renderX, screenRows, screenCols, offRow, offCol,
                   rows, syntax, dirty, filename,
                   quitTimes, lastMatch, direction, highlightRowIndex,
                   highlightRowContent,
                   pc, mode, promptBuffer, findLocals, exitCode, disk,
                   saveError, quitRun, tty, input, now, setAt>>

InitTimer == InitWith({NoArg}, WindowSizes)

NextTimer ==
  \/ \E c \in TimerKeys : ProcessKey(c, TimerLimits)
  \/ RefreshScreen
  \/ Tick
  \/ TimerFire

SpecTimer == InitTimer /\ [][NextTimer]_vars

(* SpecKeys: the key decoder on the bytes of the terminal.  Any sequence   *)
(* of at most KeysMaxInput bytes that starts with ESC or with a plain byte *)
(* is pending; each step is one call of editorReadKey, whose Reads may     *)
(* come back short.                                                        *)
KeysMaxInput == 4

KeyBytes ==
  {EscapeChar, "[", "O", "A", "B", "C", "D", "H", "F",
   "1", "2", "3", "4", "5", "6", "7", "8", "~", "x"}

InitKeys ==
  /\ \E size \in WindowSizes : InitFrom(Start(NoArg, size), NoArg)
  /\ \E n \in 0..(KeysMaxInput - 1) : \E first \in {EscapeChar, "x"} :
       \E more \in [1..n -> KeyBytes] : stdin = <<first>> \o more
  /\ char = ""

NextKeys == \E size2 \in 0..2, size1 \in 0..1 : ReadKey(size2, size1)

SpecKeys == InitKeys /\ [][NextKeys]_vars

(* SpecStart: the start of the editor on a file of StartRows rows, and     *)
(* paging through it.  The kernel answers the size query with a size or    *)
(* with an error; the terminal's answer to the position request is a       *)
(* report of 24 x 80 or 4 x 3, a report without columns, a report without  *)
(* its first bytes, or none.                                               *)
StartRows == 5

StartLimits == [rows |-> StartRows, bytes |-> StartRows, prompt |-> 0]

StartKeys == {PageDown, PageUp, ArrowDown, ArrowUp}

StartName == <<"a", ".", "b">>

KernelAnswers ==
  {[errNo |-> 0, row |-> 24, col |-> 80],
   [errNo |-> 0, row |-> 0, col |-> 0],
   [errNo |-> 25, row |-> 0, col |-> 0]}

Reports ==
  {<<EscapeChar, "[", "2", "4", ";", "8", "0", "R">>,
   <<EscapeChar, "[", "4", ";", "3", "R">>,
   <<EscapeChar, "[", "4", "R">>,
   <<"R">>,
   <<>>}

(* The state of main() before initEditor: raw mode is on, the file to     *)
(* open is one of files, the terminal's answer is one of reports.          *)
BeforeInitEditor(files, reports) ==
  /\ x = 0 /\ y = 0 /\ renderX = 0
  /\ screenRows = 0 /\ screenCols = 0
  /\ offRow = 0 /\ offCol = 0
  /\ rows = <<>> /\ syntax = NoSyntax /\ dirty = FALSE
  /\ filename = <<>> /\ statusMessage = ""
  /\ quitTimes = QuitTimes /\ lastMatch = -1 /\ direction = 1
  /\ highlightRowIndex = -1 /\ highlightRowContent = <<>>
  /\ pc = "init" /\ mode = "edit" /\ promptBuffer = <<>>
  /\ lastX = 0 /\ lastY = 0 /\ lastOffCol = 0 /\ lastOffRow = 0
  /\ exitCode = -1
  /\ disk \in files
  /\ saveError = "none" /\ quitRun = 0
  /\ originTermios = Cooked /\ termios = EnableRawMode(Cooked)
  /\ now = 0 /\ timers = {} /\ setAt = 0
  /\ stdin \in reports /\ char = ""

InitStart ==
  BeforeInitEditor({[i \in 1..(2 * StartRows) |-> IF i % 2 = 1 THEN "a" ELSE "\n"]}, Reports)

NextStart ==
  \/ \E kernel \in KernelAnswers : InitEditor(StartName, kernel)
  \/ \E c \in StartKeys : ProcessKey(c, StartLimits)
  \/ RefreshScreen
  \/ TimerExpire

SpecStart == InitStart /\ [][NextStart]_vars

(* SpecFind: searching, with the arrow keys, Enter and Escape, in a file   *)
(* of three rows of which the first (after a tab) and the last hold "b",   *)
(* and deleting with Del, after moving down, between two searches.        *)
FindMaxRows == 3
FindMaxBytes == 4
FindMaxPrompt == 1

FindLimits == [rows |-> FindMaxRows, bytes |-> FindMaxBytes, prompt |-> FindMaxPrompt]

FindKeys == {"b", Backspace, ArrowUp, ArrowDown, ArrowLeft, ArrowRight, Enter, EscapeChar}

FindEditKeys == {DelKey, ArrowDown, CtrlF}

FindArgs == {FileArg(<<"t">>, <<"\t", "b", "\n", "a", "\n", "b", "\n">>)}

InitFind == InitWith(FindArgs, WindowSizes)

NextFind ==
  \/ \E c \in FindEditKeys : ProcessKey(c, FindLimits)
  \/ \E c \in FindKeys : PromptKey(c, FindLimits)
  \/ RefreshScreen
  \/ TimerExpire

SpecFind == InitFind /\ [][NextFind]_vars

(* SpecSyntax: the highlighting of one loaded row.  The file is a.c or     *)
(* a.go and holds one line made of up to SyntaxMaxTokens tokens: the last  *)
(* keyword of each profile, a keyword that is not the last, a space, the   *)
(* start of a multi-line comment and a digit.  The cursor moves along the  *)
(* row.                                                                    *)
SyntaxMaxTokens == 3

SyntaxTokens ==
  {<<"v", "o", "i", "d">>, <<"i", "n", "t", "6", "4">>, <<"i", "f">>,
   <<" ">>, <<"/", "*">>, <<"1">>}

RECURSIVE SyntaxLines(_)
SyntaxLines(n) ==
  IF n = 0 THEN {<<>>}
  ELSE SyntaxLines(n - 1) \cup {l \o t : l \in SyntaxLines(n - 1), t \in SyntaxTokens}

SyntaxNames == {<<"a", ".", "c">>, <<"a", ".", "g", "o">>}

SyntaxLimits == [rows |-> 1, bytes |-> 5 * SyntaxMaxTokens, prompt |-> 0]

InitSyntax ==
  BeforeInitEditor({l \o <<"\n">> : l \in SyntaxLines(SyntaxMaxTokens)},
                   {<<EscapeChar, "[", "2", "4", ";", "8", "0", "R">>})

NextSyntax ==
  \/ \E name \in SyntaxNames : InitEditor(name, [errNo |-> 0, row |-> 0, col |-> 0])
  \/ \E c \in {ArrowLeft, ArrowRight} : ProcessKey(c, SyntaxLimits)
  \/ RefreshScreen
  \/ TimerExpire

SpecSyntax == InitSyntax /\ [][NextSyntax]_vars

(* ---------------------------------------------------------------------- *)
(* Properties                                                             *)
(* ---------------------------------------------------------------------- *)

(* line with each tab byte replaced by four spaces, every other byte kept *)
RECURSIVE TabsAsFourSpaces(_)
TabsAsFourSpaces(line) ==
  IF line = <<>> THEN <<>>
  ELSE (IF Head(line) = "\t" THEN <<" ", " ", " ", " ">> ELSE <<Head(line)>>)
         \o TabsAsFourSpaces(Tail(line))

(* the loop is running: no exit, no fault *)
Running == pc \in {"draw", "key"}

(* C1: in every reachable state the cursor satisfies 0 <= cy <= len(rows),  *)
(* 0 <= cx <= len(rows[cy].line) when cy < len(rows), and cx = 0 when       *)
(* cy = len(rows).                                                          *)
C1_CursorInBuffer ==
  /\ 0 <= y /\ y <= Len(rows)
  /\ (0 <= y /\ y < Len(rows) => 0 <= x /\ x <= Len(Row(rows, y).line))
  /\ (y = Len(rows) => x = 0)

(* C2: Backspace or Ctrl-H with the cursor at cx = 0, cy = 0 is a no-op for *)
(* every buffer, the buffer with zero rows included: rows, cx, cy and dirty *)
(* are unchanged.                                                           *)
C2_BackspaceAtOriginNoOp ==
  [][(x = 0 /\ y = 0 /\ (ProcessKey(Backspace, Limits) \/ ProcessKey(CtrlH, Limits)))
       => UNCHANGED <<rows, x, y, dirty>>]_vars

(* C3: in every reachable state, during find mode and in the editing or the *)
(* second find that follows a find, every row has                           *)
(* len(highlight) = len(render).                                            *)
C3_HighlightLength ==
  \A i \in 1..Len(rows) : Len(rows[i].highlight) = Len(rows[i].render)

(* C4: in every reachable state (after a file load, after every insert_row  *)
(* and delete_row) each row's idx equals its position in rows.              *)
C4_IdxIsPosition ==
  \A i \in 1..Len(rows) : rows[i].idx = i - 1

(* C5: in every reachable state every row's render equals its line with     *)
(* each tab byte replaced by exactly 4 spaces and every other byte          *)
(* unchanged.                                                               *)
C5_RenderExpandsTabs ==
  \A i \in 1..Len(rows) : rows[i].render = TabsAsFourSpaces(rows[i].line)

(* C5 witness: after a split, a join or an insertion (the buffer is         *)
(* modified) a row with a tab before another byte is there.                 *)
C5_Witness ==
  /\ dirty
  /\ \E i \in 1..Len(rows) :
       /\ Len(rows[i].line) = 2
       /\ rows[i].line[1] = "\t"
       /\ rows[i].line[2] # "\t"

(* C6: after every refresh, off_row <= cy < off_row + screen_rows and       *)
(* off_col <= rx < off_col + screen_cols, where rx is the render column of  *)
(* cx (0 on the virtual trailing row).                                      *)
C6_CursorVisibleAfterRefresh ==
  pc = "key" =>
    LET rx == IF 0 <= y /\ y < Len(rows)
              THEN Len(TabsAsFourSpaces(SubSeq(Row(rows, y).line, 1, x)))
              ELSE 0
    IN /\ renderX = rx
       /\ offRow <= y /\ y < offRow + screenRows
       /\ offCol <= rx /\ rx < offCol + screenCols

(* C6 witness: a refresh has scrolled down and to the right. *)
C6_Witness ==
  pc = "key" /\ offRow > 0 /\ offCol > 0 /\ y < Len(rows)

(* C7: in every reachable state outside find mode each row's highlight is   *)
(* what the syntax engine gives for the row's render, started from the      *)
(* hl_open_comment of the row now before it (false for row 0), and the      *)
(* row's hl_open_comment is the engine's comment state at the end of the    *)
(* row.                                                                     *)
C7_HighlightIsEngineResult ==
  (mode # "find" /\ syntax # NoSyntax) =>
    \A p \in 0..(Len(rows) - 1) :
      LET before == IF p = 0 THEN FALSE ELSE Row(rows, p - 1).hlOpenComment
          res == SyntaxOf(Row(rows, p).render, syntax, before)
      IN /\ Row(rows, p).highlight = res.hl
         /\ Row(rows, p).hlOpenComment = res.inComment

(* C8: with dirty true and the quit counter at 3, of four Ctrl-Q presses in *)
(* a row each of the first three shows the warning and does not exit, and   *)
(* the fourth exits with code 0.  (quitRun' = quitRun + 1: the key is       *)
(* Ctrl-Q; quitTimes = 3 - quitRun: the run began with the counter at 3.)   *)
C8_FourthCtrlQExits ==
  [][(pc = "key" /\ mode = "edit" /\ dirty
        /\ quitRun' = quitRun + 1 /\ quitTimes = 3 - quitRun)
       => IF quitRun < 3
          THEN /\ pc' = "draw"
               /\ statusMessage' = "warning"
               /\ quitTimes' = quitTimes - 1
               /\ dirty'
          ELSE pc' = "exit" /\ exitCode' = 0]_vars

(* C8 witness: the fourth Ctrl-Q in a row has ended the program, the buffer *)
(* modified.                                                                *)
C8_Witness ==
  pc = "exit" /\ exitCode = 0 /\ dirty /\ quitRun = 4

(* C9: after every command other than a Ctrl-Q answered with the warning    *)
(* the quit counter is 3; so with a modified buffer the editor exits        *)
(* through Ctrl-Q only when the three keys before that Ctrl-Q were Ctrl-Q   *)
(* too.                                                                     *)
C9_QuitCounterRestarts ==
  /\ (Running /\ mode = "edit" /\ quitRun = 0 => quitTimes = 3)
  /\ (pc = "exit" /\ exitCode = 0 /\ dirty => quitRun = 4)

(* C9 witness: a save as answered with Escape, a command other than Ctrl-Q, *)
(* has just ended on a modified buffer.                                     *)
C9_Witness ==
  pc = "draw" /\ mode = "edit" /\ dirty /\ statusMessage = "aborted" /\ quitRun = 0

(* C10: when opening or writing the file fails during save the editor does  *)
(* not terminate: rows and cursor are kept, dirty stays as it was, and the  *)
(* status message does not report a success.                                *)
C10_SaveFailureNotFatal ==
  [][(pc = "key" /\ pc' # "key" /\ saveError' # "none")
       => /\ pc' = "draw"
          /\ UNCHANGED <<rows, x, y, dirty>>
          /\ statusMessage' # "written"]_vars

(* the line bytes of a sequence of rows *)
LinesOf(rs) == [i \in 1..Len(rs) |-> rs[i].line]

RECURSIVE JoinCRLF(_)
JoinCRLF(lines) ==
  IF lines = <<>> THEN <<>>
  ELSE Head(lines) \o <<"\r", "\n">> \o JoinCRLF(Tail(lines))

(* a step of SpecSave in which editorSave opened and wrote the file *)
SavedOk ==
  /\ ProcessKey(CtrlS, SaveLimits) \/ PromptKey(Enter, SaveLimits)
  /\ pc' = "draw" /\ mode' = "edit"
  /\ statusMessage' = "written" /\ saveError' = "none"

(* C11: a successful save leaves in the file exactly every row's line      *)
(* followed by "\r\n", in row order, and nothing else, and the buffer is   *)
(* no longer modified.                                                     *)
C11_SaveWritesRows ==
  [][SavedOk => /\ disk' = JoinCRLF(LinesOf(rows))
                /\ rows' = rows
                /\ ~dirty']_vars

(* C11: two rows, modified, have just been written *)
C11_Witness ==
  /\ pc = "draw" /\ statusMessage = "written" /\ saveError = "none"
  /\ Len(rows) = 2 /\ rows[1].line = <<"h">> /\ rows[2].line = <<"h">>
  /\ disk = <<"h", "\r", "\n", "h", "\r", "\n">>
  /\ ~dirty

(* the rows editorOpen builds from the file just written *)
Reloaded == Start(FileArg(filename', disk'), <<screenRows + 2, screenCols>>).rows

(* C12: saving a buffer reached by key input and loading the file again    *)
(* gives the same sequence of lines.                                       *)
C12_SaveLoadRoundTrip ==
  [][SavedOk => LinesOf(Reloaded) = LinesOf(rows)]_vars

(* what the claims compare of a buffer: every row's line, render and       *)
(* highlight                                                               *)
Content(rs) == [i \in 1..Len(rs) |-> <<rs[i].line, rs[i].render, rs[i].highlight>>]

(* C13: in every state where a key is awaited, inserting a byte at the     *)
(* cursor and then pressing Backspace gives back the buffer (count of      *)
(* rows; line, render and highlight of each) and the cursor, the virtual   *)
(* row below the last one included.                                        *)
C13_InsertThenBackspace ==
  (pc = "key" /\ mode = "edit") =>
    \A c \in TypedBytes :
      LET Same(w) == /\ w.fault = "none"
                     /\ Content(w.rows) = Content(rows)
                     /\ w.x = x /\ w.y = y
      IN Same(editorDeleteChar(editorInsertChar(World, c)))

(* the cursor stands at the end of a real row while a key is awaited *)
AtEndOfRow ==
  /\ pc = "key" /\ mode = "edit"
  /\ InRows(World, y) /\ x = Len(Row(rows, y).line)

C15_ColumnRoundTrips ==
  /\ \A r \in 0..ColumnsMaxRender :
       X2Render(rows[1].line, Render2X(rows[1].line, r)) <= r
  /\ \A c \in 0..Len(rows[1].line) :
       Render2X(rows[1].line, X2Render(rows[1].line, c)) = c
  /\ X2Render(rows[1].line, Render2X(rows[1].line, renderX)) <= renderX
  /\ Render2X(rows[1].line, X2Render(rows[1].line, x)) = x

(* C15: a render column inside a tab has been converted to the cursor      *)
(* column of the tab, whose render column lies before it                   *)
C15_Witness ==
  /\ rows[1].line = <<"a", "\t", "a">>
  /\ renderX = 3 /\ x = 1
  /\ Render2X(rows[1].line, renderX) = x
  /\ X2Render(rows[1].line, x) = 1

(* the process has ended *)
Terminated == pc \in {"exit", "panic", "killed"}

(* C16: whenever the process has ended after raw mode was entered (Ctrl-Q, *)
(* a fatal error, a panic, a signal) the terminal has the attributes that  *)
(* EnableRawMode found.                                                    *)
C16_TerminalRestoredAtEnd ==
  Terminated => termios = originTermios

(* C17: in a file as it was loaded, with a syntax profile active, a row    *)
(* that ends inside a multi-line comment makes the next row start inside   *)
(* it: the bytes of the next row up to and including its first end marker  *)
(* are MultilineComment, and when no later row holds an end marker every   *)
(* byte of every later row is MultilineComment.                            *)
C17_CommentContinuesOnNextRows ==
  (~dirty /\ syntax # NoSyntax) =>
    \A K \in 0..(Len(rows) - 2) :
      Row(rows, K).hlOpenComment =>
        LET mce == syntax.multilineCommentEnd
            e == StringsIndex(Row(rows, K + 1).render, mce)
            later == (K + 1)..(Len(rows) - 1)
        IN /\ e >= 0 =>
                \A i \in 1..(e + Len(mce)) :
                  Row(rows, K + 1).highlight[i] = HighlightMultilineComment
           /\ (\A j \in later : StringsIndex(Row(rows, j).render, mce) = -1) =>
                \A j \in later : \A i \in 1..Len(Row(rows, j).render) :
                  /\ i <= Len(Row(rows, j).highlight)
                  /\ Row(rows, j).highlight[i] = HighlightMultilineComment

(* C18: Ctrl-F keeps the cursor and the offsets in the locals of           *)
(* editorFind, the locals stay as they are while the prompt runs, and the  *)
(* step that ends find mode (Enter or Escape, after any query and arrow    *)
(* keys) puts x, y, offRow and offCol back to them; no step from Ctrl-F to *)
(* the end of find mode changes a row's line or the dirty flag.            *)
C18_FindRestoresCursor ==
  [][/\ (mode = "edit" /\ mode' = "find") =>
          /\ lastX' = x /\ lastY' = y /\ lastOffRow' = offRow /\ lastOffCol' = offCol
          /\ UNCHANGED <<x, y, offRow, offCol, dirty>>
          /\ LinesOf(rows') = LinesOf(rows)
     /\ (mode = "find" /\ mode' = "find") =>
          /\ UNCHANGED findLocals
          /\ LinesOf(rows') = LinesOf(rows) /\ dirty' = dirty
     /\ (mode = "find" /\ mode' = "edit") =>
          /\ x' = lastX /\ y' = lastY /\ offRow' = lastOffRow /\ offCol' = lastOffCol
          /\ LinesOf(rows') = LinesOf(rows) /\ dirty' = dirty]_vars

(* C18: find mode is about to end after a query whose match moved the     *)
(* cursor in a modified buffer                                             *)
C18_Witness ==
  /\ mode = "find" /\ pc = "key" /\ promptBuffer = <<"/">>
  /\ x # lastX /\ lastMatch = 0
  /\ dirty

(* C19: the status message changes only when StatusMessage is called (a    *)
(* step of the main loop) or when StatusTimeout seconds have passed since  *)
(* the call that set it: the goroutine of an earlier message never clears  *)
(* a later one, as if each message carried its own deadline.               *)
C19_MessageLastsFiveSeconds ==
  [][statusMessage' # statusMessage =>
       \/ pc' # pc
       \/ now >= setAt + StatusTimeout]_vars

(* C20: from the end of a key's command to the refresh that follows it,    *)
(* only the main loop changes the editor state, the status message         *)
(* included.                                                               *)
C20_OnlyMainLoopWritesState ==
  [][(pc = "draw" /\ pc' = "draw") => UNCHANGED eVars]_vars

(* the escape sequences that stand for a key, and the key of each *)
DecoderTable ==
  {<<<<EscapeChar, "[", "A">>, ArrowUp>>, <<<<EscapeChar, "[", "B">>, ArrowDown>>,
   <<<<EscapeChar, "[", "C">>, ArrowRight>>, <<<<EscapeChar, "[", "D">>, ArrowLeft>>,
   <<<<EscapeChar, "[", "H">>, HomeKey>>, <<<<EscapeChar, "O", "H">>, HomeKey>>,
   <<<<EscapeChar, "[", "F">>, EndKey>>, <<<<EscapeChar, "O", "F">>, EndKey>>,
   <<<<EscapeChar, "[", "1", "~">>, HomeKey>>, <<<<EscapeChar, "[", "7", "~">>, HomeKey>>,
   <<<<EscapeChar, "[", "3", "~">>, DelKey>>,
   <<<<EscapeChar, "[", "4", "~">>, EndKey>>, <<<<EscapeChar, "[", "8", "~">>, EndKey>>,
   <<<<EscapeChar, "[", "5", "~">>, PageUp>>, <<<<EscapeChar, "[", "6", "~">>, PageDown>>}

(* the key of the bytes seq by the table: the key of the sequence that seq *)
(* starts with, Escape when there is none, the first byte when it is not   *)
(* ESC                                                                     *)
TableKey(seq) ==
  IF Head(seq) # EscapeChar THEN Head(seq)
  ELSE LET hits == {e \in DecoderTable : HasPrefixAt(seq, 0, e[1])}
       IN IF hits = {} THEN EscapeChar ELSE (CHOOSE e \in hits : TRUE)[2]

(* C21: a call of the key decoder that finds all the pending bytes         *)
(* available returns the key that the table of escape sequences gives      *)
(* (arrows, Home, End, Del, PageUp, PageDown), Escape for every other      *)
(* sequence that begins with ESC, and a first byte other than ESC as it    *)
(* is.                                                                     *)
C21_DecoderTable ==
  [][ReadKey(Min(2, Len(stdin) - 1), Min(1, Len(stdin) - 1 - Min(2, Len(stdin) - 1)))
       => char' = TableKey(stdin)]_vars

(* C21: ESC [ 3 ~ has been decoded as Del and nothing is left pending *)
C21_Witness ==
  char = DelKey /\ stdin = <<>>

(* C22: every call of the key decoder takes a prefix of the pending bytes  *)
(* and leaves the rest, touches nothing else, and returns what the bytes   *)
(* it took stand for by themselves: Escape when they are no complete       *)
(* sequence, in particular when fewer than two bytes followed ESC or the   *)
(* byte after ESC [ digit did not come.                                    *)
C22_DecoderKeepsNoState ==
  [][\A size2 \in 0..2, size1 \in 0..1 :
       ReadKey(size2, size1) =>
         LET k == Len(stdin) - Len(stdin')
             taken == SubSeq(stdin, 1, k)
         IN /\ k >= 1
            /\ stdin' = SubSeq(stdin, k + 1, Len(stdin))
            /\ char' = (IF Head(taken) # EscapeChar THEN Head(taken)
                        ELSE IF \E e \in DecoderTable : e[1] = taken
                        THEN TableKey(taken) ELSE EscapeChar)
            /\ (Head(stdin) = EscapeChar /\ size2 < 2) => char' = EscapeChar
            /\ (Head(stdin) = EscapeChar /\ size2 = 2 /\ stdin[2] = "["
                  /\ stdin[3] \in Digits /\ size1 = 0) => char' = EscapeChar
            /\ UNCHANGED <<eVars, pc, mode>>]_vars

(* C22: ESC [ 5 came without its last byte: the call returned Escape and   *)
(* the bytes that arrived later are what is pending                        *)
C22_Witness ==
  char = EscapeChar /\ stdin = <<"~", "x">>

(* C23: with a buffer of five rows on a 24 x 80 terminal (22 text rows)   *)
(* and the cursor at (0, 0), PageDown leaves the cursor on row 4, and      *)
(* after the next refresh the row offset makes the cursor row visible.     *)
C23_PageDownFiveRows ==
  /\ [][(/\ screenRows = 22 /\ Len(rows) = StartRows
         /\ x = 0 /\ y = 0 /\ offRow = 0
         /\ ProcessKey(PageDown, StartLimits))
        => y' = 4]_vars
  /\ [](screenRows = 22 /\ pc = "key" => offRow <= y /\ y < offRow + screenRows)

(* C24: the window size query falls back on the cursor position report   *)
(* whenever the primary query gives no size, also when the primary query   *)
(* returns an error, and fails only when both fail: with a well-formed     *)
(* report pending, the editor starts with the size of the report.          *)
C24_FallbackOnPrimaryError ==
  [][\A kernel \in KernelAnswers :
       (/\ InitEditor(StartName, kernel)
        /\ ioctlGetWinSize(kernel).ws.Col = 0
        /\ GetCursorPosition(stdin).fault = "none"
        /\ GetCursorPosition(stdin).size[1] > 0
        /\ GetCursorPosition(stdin).size[2] > 0)
       => /\ pc' = "draw"
          /\ screenRows' = GetCursorPosition(stdin).size[1] - 2
          /\ screenCols' = GetCursorPosition(stdin).size[2]]_vars

(* C25: from every reachable state, processing a key and refreshing after  *)
(* it never reads rows, a line or a highlight outside its bounds: the      *)
(* program never ends in a Go runtime panic.                               *)
C25_NoIndexOutOfBounds == pc # "panic"

(* C26: when a key removes a row whose hl_open_comment was true (the join  *)
(* by Backspace at column 0, or by Del at the end of the row before), the  *)
(* row that now follows the deletion point is highlighted again: its       *)
(* highlight and hl_open_comment are what the syntax engine gives for its  *)
(* render, started from the hl_open_comment of its new predecessor.        *)
C26_DeleteRowRehighlights ==
  [][(/\ pc = "key" /\ pc' = "draw" /\ mode = "edit"
      /\ syntax # NoSyntax
      /\ Len(rows') = Len(rows) - 1
      /\ y' >= 0 /\ y' + 1 < Len(rows')
      /\ Row(rows, y' + 1).hlOpenComment)
     => LET res == SyntaxOf(Row(rows', y' + 1).render, syntax,
                            Row(rows', y').hlOpenComment)
        IN /\ Row(rows', y' + 1).highlight = res.hl
           /\ Row(rows', y' + 1).hlOpenComment = res.inComment]_vars

(* a key of the search prompt after which the callback searches: not Enter *)
(* or Escape, and not a deletion in the empty query                        *)
SearchKey(c) ==
  /\ c \notin {Enter, EscapeChar}
  /\ ~(c \in {DelKey, CtrlH, Backspace} /\ promptBuffer = <<>>)

(* C27: when a key of the search prompt makes the callback search for a    *)
(* query q that some row contains, there is a hit at a render offset m of  *)
(* a row R, after which the cursor is on row R at the column of m,         *)
(* exactly the bytes m .. m + len(q) - 1 of R's highlight are Match, the   *)
(* highlight R had before is what is saved, the row of the hit before has  *)
(* its saved highlight back, and no other row has a Match byte.            *)
C27_FindHit ==
  [][\A c \in FindKeys :
       (/\ PromptKey(c, FindLimits)
        /\ mode = "find" /\ SearchKey(c)
        /\ highlightRowIndex < Len(rows)
        /\ \E p \in 0..(Len(rows) - 1) :
              StringsIndex(Row(rows, p).render, promptBuffer') >= 0)
       => LET R == highlightRowIndex'
              q == promptBuffer'
              before == IF highlightRowIndex = R
                        THEN highlightRowContent ELSE Row(rows, R).highlight
              m == StringsIndex(Row(rows, R).render, q)
              hl == Row(rows', R).highlight
          IN /\ pc' = "draw" /\ R # -1
             /\ m >= 0
             /\ y' = R
             /\ x' = Render2X(Row(rows, R).line, m)
             /\ Len(hl) = Len(before)
             /\ \A i \in 1..Len(hl) :
                  IF m < i /\ i <= m + Len(q)
                  THEN hl[i] = HighlightMatch
                  ELSE hl[i] = before[i] /\ hl[i] # HighlightMatch
             /\ highlightRowContent' = before
             /\ (highlightRowIndex \notin {-1, R} =>
                   Row(rows', highlightRowIndex).highlight = highlightRowContent)
             /\ \A p \in 0..(Len(rows') - 1) :
                  p # R => \A i \in 1..Len(Row(rows', p).highlight) :
                             Row(rows', p).highlight[i] # HighlightMatch]_vars

(* the rows of rs whose render contains the query q *)
RowsWith(rs, q) == {p \in 0..(Len(rs) - 1) : StringsIndex(Row(rs, p).render, q) >= 0}

(* the row of RowsWith(rs, q) that comes first when the rows are gone      *)
(* through from row `from' in steps of dir, cyclically                     *)
FirstFrom(rs, q, from, dir) ==
  CHOOSE p \in RowsWith(rs, q) :
    \A r \in RowsWith(rs, q) :
      ((p - from) * dir) % Len(rs) <= ((r - from) * dir) % Len(rs)

C29_NoMatchOutsideFind ==
  mode # "find" =>
    /\ highlightRowIndex = -1
    /\ \A p \in 0..(Len(rows) - 1) :
         \A i \in 1..Len(Row(rows, p).highlight) :
           Row(rows, p).highlight[i] # HighlightMatch

(* the length of the line of row p of rs, 0 for the row after the last *)
LineLen(rs, p) == IF p < Len(rs) THEN Len(Row(rs, p).line) ELSE 0

(* C30: ArrowLeft at column 0 of a row cy > 0 goes to the end of the row   *)
(* before, and does nothing at (0, 0); ArrowRight at the end of a row of   *)
(* the buffer goes to column 0 of the next row, which may be the row after *)
(* the last one, and does nothing there; ArrowUp and ArrowDown change cy   *)
(* by one inside 0 .. len(rows); after every motion cx is at most the      *)
(* length of the new row (0 on the row after the last).                    *)
C30_CursorMotion ==
  [][\A c \in {ArrowLeft, ArrowRight, ArrowUp, ArrowDown} :
       ProcessKey(c, Limits) =>
         /\ pc' = "draw"
         /\ rows' = rows
         /\ CASE c = ArrowLeft ->
                   IF x # 0 THEN x' = x - 1 /\ y' = y
                   ELSE IF y > 0 THEN x' = LineLen(rows, y - 1) /\ y' = y - 1
                   ELSE x' = 0 /\ y' = 0
              [] c = ArrowRight ->
                   IF y < Len(rows) /\ x < LineLen(rows, y) THEN x' = x + 1 /\ y' = y
                   ELSE IF y < Len(rows) THEN x' = 0 /\ y' = y + 1
                   ELSE x' = x /\ y' = y
              [] c = ArrowUp ->
                   /\ y' = IF y > 0 THEN y - 1 ELSE 0
                   /\ x' = Min(x, LineLen(rows, y'))
              [] c = ArrowDown ->
                   /\ y' = IF y < Len(rows) THEN y + 1 ELSE y
                   /\ x' = Min(x, LineLen(rows, y'))
         /\ 0 <= y' /\ y' <= Len(rows)
         /\ 0 <= x' /\ x' <= LineLen(rows, y')]_vars

(* C30: the cursor has moved from a row of two bytes, the last of two      *)
(* rows, onto the row after it.                                            *)
C30_Witness ==
  /\ pc = "draw" /\ mode = "edit"
  /\ Len(rows) = 2 /\ y = 2 /\ x = 0
  /\ Row(rows, 0).line = <<>> /\ Row(rows, 1).line = <<"/", "*">>

C32_BackspaceOnTrailingRow ==
  [][(/\ ProcessKey(Backspace, SaveLimits)
      /\ y = Len(rows) /\ Len(rows) > 0)
     => /\ y' = y - 1
        /\ x' = x
        /\ [p \in 1..Len(rows') |-> rows'[p].line] = [p \in 1..Len(rows) |-> rows[p].line]
        /\ dirty' = dirty]_vars

(* C33: Del erases forwards and never moves the cursor: inside a row it    *)
(* removes the byte at cx; at the end of a row that has a successor it     *)
(* joins the successor onto the row; at the end of the last row and on the *)
(* row after the last it changes neither the rows nor the cursor.          *)
C33_DelErasesForward ==
  [][ProcessKey(DelKey, Limits) =>
       /\ pc' = "draw"
       /\ x' = x /\ y' = y
       /\ IF y < Len(rows) /\ x < Len(Row(rows, y).line)
          THEN LinesOf(rows') =
                 [LinesOf(rows) EXCEPT ![y + 1] =
                    SliceTo(Row(rows, y).line, x) \o SliceFrom(Row(rows, y).line, x + 1)]
          ELSE IF y < Len(rows) - 1
          THEN /\ Len(rows') = Len(rows) - 1
               /\ \A p \in 0..(Len(rows') - 1) :
                    Row(rows', p).line =
                      (IF p < y THEN Row(rows, p).line
                       ELSE IF p = y THEN Row(rows, y).line \o Row(rows, y + 1).line
                       ELSE Row(rows, p + 1).line)
          ELSE LinesOf(rows') = LinesOf(rows)]_vars

C35_SyntaxBySuffix ==
  /\ filename = EmptyFile => syntax = NoSyntax
  /\ syntax # NoSyntax =>
       LET dotIdx == StringsLastIndex(filename, <<".">>)
       IN /\ dotIdx # -1
          /\ \E m \in 1..Len(syntax.fileMatch) :
               syntax.fileMatch[m] = SubSeq(filename, dotIdx + 1, Len(filename))

(* C36: for every keyword of the active profile, the last of the list      *)
(* included: where the keyword begins after a separator (or at the start   *)
(* of the row), outside a comment, and is followed by a separator or the   *)
(* end of the row, exactly its bytes are painted Keyword1 or Keyword2 as   *)
(* the list classifies it, and the scan goes on at the byte right after    *)
(* it: the start of a multi-line comment there is painted as a comment.    *)
C36_KeywordsPainted ==
  (pc \in {"draw", "key"} /\ syntax # NoSyntax /\ Len(rows) = 1) =>
    LET render == Row(rows, 0).render
        hl == Row(rows, 0).highlight
        mcs == syntax.multilineCommentStart
    IN \A k \in 1..Len(syntax.keywords), i \in 0..(Len(render) - 1) :
         LET kw == syntax.keywords[k]
             n == Len(kw.text)
         IN (/\ HasPrefixAt(render, i, kw.text)
             /\ i = 0 \/ isSeparator(render[i])
             /\ i + n = Len(render) \/ isSeparator(render[i + n + 1])
             /\ \A j \in 0..(i - 1) :
                  /\ ~HasPrefixAt(render, j, mcs)
                  /\ ~HasPrefixAt(render, j, syntax.singleLineCommentStart))
            => /\ \A j \in (i + 1)..(i + n) :
                    hl[j] = (IF kw.isKeyword2 THEN HighLightKeyword2 ELSE HighLightKeyword1)
               /\ i + n < Len(render) =>
                    hl[i + n + 1] \notin {HighLightKeyword1, HighLightKeyword2}
               /\ HasPrefixAt(render, i + n, mcs) =>
                    hl[i + n + 1] = HighlightMultilineComment

(* C37: the propagation of the comment state from row to row ends in       *)
(* every reachable state, whatever idx the rows carry: no edit starts a    *)
(* re-highlighting that does not come to an end.                           *)
C37_PropagationTerminates == pc # "hang"

(* C37: the "*" of the loaded row "/*" was deleted, which closed the       *)
(* comment at the end of row 0 and sent the re-highlighting on to the row  *)
(* after it.                                                               *)
C37_Witness ==
  /\ pc = "draw" /\ syntax # NoSyntax /\ Len(rows) = 2
  /\ Row(rows, 0).line = <<"/">> /\ ~Row(rows, 0).hlOpenComment
  /\ Row(rows, 1).line = <<"\t">>

(* C38: dirty is false only while the lines of the rows are those of the   *)
(* last load or successful save: a step of the running editor that changes *)
(* the line of a row or the number of rows leaves dirty true, and a step   *)
(* that takes dirty from true to false is a save that put the rows on disk *)
(* (no error, and the file holds the bytes of the rows).                   *)
C38_CleanMeansSaved ==
  [][pc # "init" =>
       /\ (LinesOf(rows') # LinesOf(rows) => dirty')
       /\ (dirty /\ ~dirty' => saveError' = "none" /\ disk' = FileBytes(rows'))]_vars

(* The same rule for every step but a save whose write failed *)
C38_ExceptFailedWrite ==
  [][(pc # "init" /\ saveError' # "write") =>
       /\ (LinesOf(rows') # LinesOf(rows) => dirty')
       /\ (dirty /\ ~dirty' => saveError' = "none" /\ disk' = FileBytes(rows'))]_vars
(* C39: the keys that move the cursor or do nothing (the four arrows,      *)
(* Home, End, PageUp, PageDown, Ctrl-L and Escape alone) leave the rows    *)
(* with their line, render and highlight, their number, dirty and the      *)
(* file name as they are; Home puts x at 0, End puts x behind the last     *)
(* byte of the row under the cursor when there is one, and neither moves y. *)
C39_MotionKeysFrame ==
  [][\A c \in {ArrowUp, ArrowDown, ArrowLeft, ArrowRight, HomeKey, EndKey,
                PageUp, PageDown, CtrlL, EscapeChar} :
       ProcessKey(c, Limits) =>
         /\ rows' = rows /\ dirty' = dirty /\ filename' = filename
         /\ (c = HomeKey => x' = 0 /\ y' = y)
         /\ (c = EndKey /\ 0 <= y /\ y < Len(rows) =>
               x' = LineLen(rows, y) /\ y' = y)]_vars

(* C39: the cursor is behind the last byte of a first row of two bytes,    *)
(* with a second row below it, after a key was handled.                    *)
C39_Witness ==
  /\ pc = "draw" /\ statusMessage = "key" /\ Len(rows) = 2
  /\ y = 0 /\ x = 2 /\ LineLen(rows, 0) = 2

(* C40: the default branch of the dispatcher inserts printable bytes only: *)
(* Ctrl-J (0x0a), a control byte that no case of the switch names, leaves  *)
(* the rows and dirty as they are.                                         *)
C40_ControlByteNotInserted ==
  [][ProcessKey("\n", SaveLimits) => rows' = rows /\ dirty' = dirty]_vars

====
